---- MODULE Spec2Model ----
(***************************************************************************)
(* A state-machine model of the cppcoro coroutine primitives of this       *)
(* repository: task<T,NoExcept> (src/unnamed/part_000, both builds: the    *)
(* protocol brokered by the atomic m_state and symmetric transfer),        *)
(* generator<T,NoExcept> (generator.hpp) and                               *)
(* recursive_generator<T,NoExcept> together with the exception_promise     *)
(* mix-in (detail/exception_promise.hpp).                                  *)
(*                                                                         *)
(* One behaviour exercises one template instantiation (inst): the wrapper  *)
(* kind, the promise specialisation (value, void or reference result) and  *)
(* the NoExcept flag are fixed by Init, as template arguments are.         *)
(*                                                                         *)
(* A coroutine frame is a record of fr.  What its body does is chosen as   *)
(* it runs: a task body may suspend once on an external event and then     *)
(* returns the value Val(f, 0) or throws the exception Exc(f); a generator *)
(* body yields Val(f, 1), Val(f, 2), ... (at most MaxYield values) and     *)
(* then returns or throws.  The fields ran, consumed, outcome, resumes,    *)
(* suspRet and continues of a frame are history, not program state.        *)
(*                                                                         *)
(* Spec follows the wrappers and the task protocol.  IterSpec follows one  *)
(* iteration in steps: a tree of recursive_generator bodies that yield     *)
(* values and nested generators, the pull() loop, and fmap over it.        *)
(* LoopSpec is the range-based for loop over such a tree, with fairness.   *)
(* SymSpec follows a chain of tasks in the symmetric-transfer build.       *)
(***************************************************************************)
EXTENDS Integers, Sequences, FiniteSets, TLC

\* ------------------------------------------------------------------ bounds
\* number of wrapper objects (task / generator / recursive_generator variables)
NumWrappers == 2
\* number of coroutine frames a behaviour may create
NumFrames == 2
\* longest generator body, in yields
MaxYield == 1
\* number of coroutine frames of an iteration: an fmap frame, if any, and the
\* chain of nested recursive_generator bodies
MaxChain == 3
\* longest body of an iteration, in co_yield statements
MaxItems == 2

Wrappers == 1..NumWrappers
Frames == 1..NumFrames
IterFrames == 1..MaxChain

\* the null coroutine handle / null promise pointer / null exception_ptr
nullptr == 0
\* the exception object thrown by part_000:448
broken_promise == -1

\* the value produced by frame f: its k-th yield, or (k = 0) its co_return value
Val(f, k) == 10 * f + k
\* the exception object thrown by the body of frame f
Exc(f) == f

\* The value yielded by the co_yield statement at place path of a tree of
\* bodies: path[1] is the statement of the root body, path[2] the statement of
\* the body nested there, and so on.  The numbers are ordered as the
\* depth-first, in-order walk of the tree visits the statements.
ItemVal(path) ==
    LET S[n \in 0..Len(path)] ==
            IF n = 0 THEN 0
            ELSE S[n - 1] + path[n] * (MaxItems + 1) ^ (MaxChain - n)
    IN  S[Len(path)]

\* the function given to fmap
func(v) == 2 * v

VARIABLES inst, wr, fr, cons, obs, proc

vars == <<inst, wr, fr, cons, obs, proc>>

\* ------------------------------------------------------- template instances
Kinds == {"task", "generator", "recursive_generator"}
RTypes == {"value", "void", "ref"}

Instances ==
    {i \in [kind : Kinds, rtype : RTypes, noexc : BOOLEAN] :
        i.kind # "task" => i.rtype = "value"}

\* the promise derives from exception_promise<NoExcept, ...>
UsesExceptionPromise(i) == i.kind # "task" \/ i.rtype \in {"void", "ref"}

\* ------------------------------------------------------------------ frames
\* A frame that has not been created.  status is the coroutine's suspension
\* point: init (initial_suspend), run (executing on thread), wait (suspended
\* at an await on an external event), yield (suspended at co_yield),
\* final_xchg / final_resume (suspended at the final suspend point, inside
\* final_awaitable::await_suspend), final (suspended at the final suspend
\* point for good), destroyed; and in an iteration call (executing, inside a
\* call that resumes another coroutine) and nest (suspended at the co_yield of
\* a nested recursive_generator).  body is the coroutine function: "user" or
\* "fmap".  child is the generator object that lives in the frame: the nested
\* recursive_generator being yielded, or the source parameter of fmap.  path
\* (the place of the body in the tree) and last (the last value delivered from
\* this root) are history.
NoFrame ==
    [status |-> "unalloc", thread |-> "none", pos |-> 0,
     ran |-> FALSE, consumed |-> FALSE, outcome |-> "none",
     m_state |-> FALSE, m_continuation |-> "null",
     m_resultType |-> "empty", m_hasValue |-> FALSE,
     m_value |-> nullptr, m_exception |-> nullptr,
     m_root |-> nullptr, m_parentOrLeaf |-> nullptr,
     body |-> "none", child |-> nullptr,
     path |-> <<>>, last |-> 0,
     resumes |-> 0, suspRet |-> "none", continues |-> 0, destroys |-> 0]

\* coroutine_handle::done(): suspended at the final suspend point
done(p) == p.status \in {"final_xchg", "final_resume", "final"}

\* a frame on which destroy() is defined: suspended, and no thread inside it
Suspended(p) == p.status \in {"init", "wait", "yield", "nest", "final"}

NoObs == [op |-> "none", h |-> nullptr, fl |-> "none", tag |-> "none", v |-> 0]

IdleCons == [pc |-> "idle", m_coroutine |-> nullptr, fl |-> "none"]

\* ------------------------------------------------------- promise operations
\* initial_suspend() of the three promise types: all suspend_always
\* (below: a task promise whose initial_suspend returns suspend_never)
task_initial_suspend_never == "suspend_never"

task_initial_suspend == "suspend_always"

generator_initial_suspend == "suspend_always"

recursive_generator_initial_suspend == "suspend_always"

initial_suspend(i) ==
    CASE i.kind = "task" -> task_initial_suspend
      [] i.kind = "generator" -> generator_initial_suspend
      [] OTHER -> recursive_generator_initial_suspend

\* the frame of a coroutine function that has just been called: the promise
\* is constructed (task: m_state(false), m_resultType = empty, m_exception =
\* nullptr; recursive_generator: m_value(nullptr), m_root(this),
\* m_parentOrLeaf(this)), get_return_object() runs and the body stops at
\* initial_suspend
NewFrame(i, f) ==
    [NoFrame EXCEPT !.m_root = IF i.kind = "recursive_generator"
                               THEN f ELSE nullptr,
                    !.m_parentOrLeaf = IF i.kind = "recursive_generator"
                                       THEN f ELSE nullptr,
                    !.status = IF initial_suspend(i) = "suspend_always"
                               THEN "init" ELSE "run",
                    !.thread = IF initial_suspend(i) = "suspend_always"
                               THEN "none" ELSE "caller"]

\* an unhandled_exception() that stores the exception whatever NoExcept is
unhandled_exception_stores(i) == FALSE

\* exception_promise<true>::unhandled_exception and
\* task_promise<T,true>::unhandled_exception call std::terminate()
unhandled_exception_terminates(i) == i.noexc

\* task_promise<T,false>::unhandled_exception
task_promise_unhandled_exception(p, e) ==
    [p EXCEPT !.m_exception = e, !.m_resultType = "exception"]

\* exception_promise<false,Base>::unhandled_exception
exception_promise_unhandled_exception(p, e) ==
    [p EXCEPT !.m_exception = e]

unhandled_exception(i, p, e) ==
    IF UsesExceptionPromise(i)
    THEN exception_promise_unhandled_exception(p, e)
    ELSE task_promise_unhandled_exception(p, e)

\* return_value / return_void of the four task promises
return_value(i, p, v) ==
    CASE i.rtype = "void" -> p
      [] i.rtype = "ref" -> [p EXCEPT !.m_value = v]
      [] i.rtype = "value" /\ i.noexc ->
            [p EXCEPT !.m_value = v, !.m_hasValue = TRUE]
      [] OTHER -> [p EXCEPT !.m_value = v, !.m_resultType = "value"]

\* What std::move(m_exception) leaves in m_exception once the by-value
\* parameter of std::rethrow_exception has been constructed from it: null
\* where exception_ptr has a move constructor, the old pointer where it has
\* only a copy constructor.  Both standard libraries exist.
MovedFromExceptionPtr(e) == {nullptr, e}

\* exception_promise<NoExcept,Base>::rethrow_if_exception: the set of
\* outcomes [raised: the exception re-raised or nullptr, p: the promise after]
rethrow_if_exception(i, p) ==
    IF i.noexc \/ p.m_exception = nullptr
    THEN {[raised |-> nullptr, p |-> p]}
    ELSE {[raised |-> p.m_exception, p |-> [p EXCEPT !.m_exception = m]] :
            m \in MovedFromExceptionPtr(p.m_exception)}

Outcome(tag, v, p) == [tag |-> tag, v |-> v, p |-> p]

\* task_promise<T,false>::result (both ref-qualifications; T is arithmetic,
\* so result() && returns a copy)
task_promise_result(p) ==
    CASE p.m_resultType = "exception" -> {Outcome("raise", p.m_exception, p)}
      [] p.m_resultType = "value" -> {Outcome("value", p.m_value, p)}
      [] OTHER -> {Outcome("undefined", 0, p)}

\* task_promise<T,true>::result
task_promise_noexcept_result(p) ==
    IF p.m_hasValue THEN {Outcome("value", p.m_value, p)}
    ELSE {Outcome("undefined", 0, p)}

\* task_promise<void,NoExcept>::result
task_promise_void_result(i, p) ==
    {IF r.raised # nullptr THEN Outcome("raise", r.raised, r.p)
     ELSE Outcome("void", 0, r.p) : r \in rethrow_if_exception(i, p)}

\* task_promise<T&,NoExcept>::result
task_promise_ref_result(i, p) ==
    {IF r.raised # nullptr THEN Outcome("raise", r.raised, r.p)
     ELSE IF r.p.m_value # nullptr THEN Outcome("value", r.p.m_value, r.p)
     ELSE Outcome("undefined", 0, r.p) : r \in rethrow_if_exception(i, p)}

result(i, p) ==
    CASE i.rtype = "void" -> task_promise_void_result(i, p)
      [] i.rtype = "ref" -> task_promise_ref_result(i, p)
      [] i.rtype = "value" /\ i.noexc -> task_promise_noexcept_result(p)
      [] OTHER -> task_promise_result(p)

\* ------------------------------------------------------------ the wrappers
\* A wrapper wr[w] is a task / generator / recursive_generator object: alive
\* between its construction and its destruction, holding m_coroutine
\* (m_promise in recursive_generator).  A heap H is [wr, fr].
Heap == [wr |-> wr, fr |-> fr]

DeadWrapper == [alive |-> FALSE, m_coroutine |-> nullptr]

\* the frames that go with frame h: h, the frame of the generator object that
\* lives in h, and so on
Held(F, h) ==
    IF F[h].child = nullptr THEN {h}
    ELSE LET D[n \in 0..Cardinality(DOMAIN F)] ==
                IF n = 0 THEN h
                ELSE IF D[n - 1] = nullptr THEN nullptr
                ELSE F[D[n - 1]].child
         IN  {D[n] : n \in 0..Cardinality(DOMAIN F)} \ {nullptr}

\* a destroy() that releases the frame and leaks the objects that live in it
destroy_frame_only(F, h) ==
    [F EXCEPT ![h] = [NoFrame EXCEPT !.status = "destroyed",
                                     !.destroys = F[h].destroys + 1]]

\* coroutine_handle::destroy(): the frame, its promise and its stored result
\* are released, and so are the objects that live in the frame: the
\* destructor of a generator object there destroys the frame it holds
destroy(F, h) ==
    LET held == Held(F, h)
    IN  [f \in DOMAIN F |->
            IF f \in held
            THEN [NoFrame EXCEPT !.status = "destroyed",
                                 !.destroys = F[f].destroys + 1]
            ELSE F[f]]

\* task() noexcept : m_coroutine(nullptr); generator() and
\* recursive_generator() are the same
default_ctor(H, w) ==
    [H EXCEPT !.wr[w] = [alive |-> TRUE, m_coroutine |-> nullptr]]

\* explicit task(coroutine_handle) and its generator counterparts, as called
\* by get_return_object() when the coroutine function is called
handle_ctor(H, w, f, p) ==
    [wr |-> [H.wr EXCEPT ![w] = [alive |-> TRUE, m_coroutine |-> f]],
     fr |-> [H.fr EXCEPT ![f] = p]]

\* a move constructor that copies the handle and leaves t.m_coroutine alone
task_move_ctor_keeps_source(H, w, t) ==
    [H EXCEPT !.wr[w] = [alive |-> TRUE, m_coroutine |-> H.wr[t].m_coroutine]]

\* task(task&& t) noexcept
task_move_ctor(H, w, t) ==
    [H EXCEPT !.wr[w] = [alive |-> TRUE, m_coroutine |-> H.wr[t].m_coroutine],
              !.wr[t].m_coroutine = nullptr]

\* ~task()
task_dtor(H, w) ==
    [wr |-> [H.wr EXCEPT ![w] = DeadWrapper],
     fr |-> IF H.wr[w].m_coroutine # nullptr
            THEN destroy(H.fr, H.wr[w].m_coroutine) ELSE H.fr]

\* task& operator=(task&& other) noexcept
task_move_assign(H, w, other) ==
    IF other # w
    THEN [wr |-> [H.wr EXCEPT ![w].m_coroutine = H.wr[other].m_coroutine,
                              ![other].m_coroutine = nullptr],
          fr |-> IF H.wr[w].m_coroutine # nullptr
                 THEN destroy(H.fr, H.wr[w].m_coroutine) ELSE H.fr]
    ELSE H

\* generator(generator&& other) noexcept
generator_move_ctor(H, w, other) ==
    [H EXCEPT !.wr[w] = [alive |-> TRUE,
                         m_coroutine |-> H.wr[other].m_coroutine],
              !.wr[other].m_coroutine = nullptr]

\* ~generator()
generator_dtor(H, w) ==
    [wr |-> [H.wr EXCEPT ![w] = DeadWrapper],
     fr |-> IF H.wr[w].m_coroutine # nullptr
            THEN destroy(H.fr, H.wr[w].m_coroutine) ELSE H.fr]

\* void generator::swap(generator& other) noexcept
generator_swap(H, w, other) ==
    [H EXCEPT !.wr[w].m_coroutine = H.wr[other].m_coroutine,
              !.wr[other].m_coroutine = H.wr[w].m_coroutine]

\* generator& operator=(generator other) noexcept: the by-value parameter is
\* move-constructed from the source, swapped with *this and destroyed
generator_move_assign(H, w, src) ==
    LET param == H.wr[src].m_coroutine
        H1 == [H EXCEPT !.wr[src].m_coroutine = nullptr]
        mine == H1.wr[w].m_coroutine
        H2 == [H1 EXCEPT !.wr[w].m_coroutine = param]
    IN  [wr |-> H2.wr,
         fr |-> IF mine # nullptr THEN destroy(H2.fr, mine) ELSE H2.fr]

\* recursive_generator(recursive_generator&& other) noexcept
recursive_generator_move_ctor(H, w, other) ==
    [H EXCEPT !.wr[w] = [alive |-> TRUE,
                         m_coroutine |-> H.wr[other].m_coroutine],
              !.wr[other].m_coroutine = nullptr]

\* ~recursive_generator()
recursive_generator_dtor(H, w) ==
    [wr |-> [H.wr EXCEPT ![w] = DeadWrapper],
     fr |-> IF H.wr[w].m_coroutine # nullptr
            THEN destroy(H.fr, H.wr[w].m_coroutine) ELSE H.fr]

\* recursive_generator& operator=(recursive_generator&& other) noexcept
recursive_generator_move_assign(H, w, other) ==
    IF w # other
    THEN [wr |-> [H.wr EXCEPT ![w].m_coroutine = H.wr[other].m_coroutine,
                              ![other].m_coroutine = nullptr],
          fr |-> IF H.wr[w].m_coroutine # nullptr
                 THEN destroy(H.fr, H.wr[w].m_coroutine) ELSE H.fr]
    ELSE H

\* void recursive_generator::swap(recursive_generator& other) noexcept
recursive_generator_swap(H, w, other) ==
    [H EXCEPT !.wr[w].m_coroutine = H.wr[other].m_coroutine,
              !.wr[other].m_coroutine = H.wr[w].m_coroutine]

move_ctor(i, H, w, other) ==
    CASE i.kind = "task" -> task_move_ctor(H, w, other)
      [] i.kind = "generator" -> generator_move_ctor(H, w, other)
      [] OTHER -> recursive_generator_move_ctor(H, w, other)

dtor(i, H, w) ==
    CASE i.kind = "task" -> task_dtor(H, w)
      [] i.kind = "generator" -> generator_dtor(H, w)
      [] OTHER -> recursive_generator_dtor(H, w)

move_assign(i, H, w, other) ==
    CASE i.kind = "task" -> task_move_assign(H, w, other)
      [] i.kind = "generator" -> generator_move_assign(H, w, other)
      [] OTHER -> recursive_generator_move_assign(H, w, other)

swap(i, H, w, other) ==
    IF i.kind = "generator" THEN generator_swap(H, w, other)
    ELSE recursive_generator_swap(H, w, other)

\* the frames a heap operation destroys must be suspended: destroy() of a
\* coroutine that is running is undefined, and no owner does it
DestroysOnlySuspended(H) ==
    \A f \in Frames :
        H.fr[f].destroys # fr[f].destroys => Suspended(fr[f])

\* the next frame the allocator hands out
FreeFrames == {f \in Frames : fr[f].status = "unalloc"}

NextFrame == CHOOSE f \in FreeFrames : \A g \in FreeFrames : f <= g

\* the storage of the next wrapper object to be constructed
DeadWrappers == {w \in Wrappers : ~wr[w].alive}

Fresh(w) == w \in DeadWrappers /\ \A x \in DeadWrappers : w <= x

\* the process is alive and the result of the last operation has been taken
Running == proc = "running" /\ obs = NoObs

Owner == Running /\ cons.pc = "idle"

\* what an operation hands back to its caller: obs.h is the handle the
\* operation was about (call: the frame created, move_ctor: the handle taken
\* from the source, move_assign / swap / dtor: the handle the wrapper held)
Op(name, h) == [NoObs EXCEPT !.op = name, !.h = h]

\* the caller takes the result of the operation that has just returned and
\* goes on
Continue ==
    /\ proc = "running"
    /\ obs # NoObs
    /\ obs' = NoObs
    /\ UNCHANGED <<inst, wr, fr, cons, proc>>

\* ------------------------------------------------- actions on the wrappers
\* T w;  (a default-constructed, empty wrapper)
DefaultConstruct(w) ==
    /\ Owner
    /\ Fresh(w)
    /\ LET R == default_ctor(Heap, w)
       IN  wr' = R.wr /\ fr' = R.fr
    /\ obs' = Op("default_ctor", nullptr)
    /\ UNCHANGED <<inst, cons, proc>>

\* T w = f();  (calling a coroutine function)
Call(w) ==
    /\ Owner
    /\ Fresh(w)
    /\ FreeFrames # {}
    /\ LET R == handle_ctor(Heap, w, NextFrame, NewFrame(inst, NextFrame))
       IN  wr' = R.wr /\ fr' = R.fr
    /\ obs' = Op("call", NextFrame)
    /\ UNCHANGED <<inst, cons, proc>>

\* T w(std::move(src));
MoveConstruct(w, src) ==
    /\ Owner
    /\ Fresh(w)
    /\ wr[src].alive
    /\ LET R == move_ctor(inst, Heap, w, src)
       IN  wr' = R.wr /\ fr' = R.fr
    /\ obs' = Op("move_ctor", wr[src].m_coroutine)
    /\ UNCHANGED <<inst, cons, proc>>

\* w = std::move(src);  (src may be w itself)
MoveAssign(w, src) ==
    /\ Owner
    /\ wr[w].alive
    /\ wr[src].alive
    /\ LET R == move_assign(inst, Heap, w, src)
       IN  /\ DestroysOnlySuspended(R)
           /\ wr' = R.wr /\ fr' = R.fr
    /\ obs' = Op("move_assign", wr[w].m_coroutine)
    /\ UNCHANGED <<inst, cons, proc>>

\* w.swap(other);  (generator and recursive_generator)
Swap(w, other) ==
    /\ Owner
    /\ inst.kind # "task"
    /\ wr[w].alive
    /\ wr[other].alive
    /\ LET R == swap(inst, Heap, w, other)
       IN  wr' = R.wr /\ fr' = R.fr
    /\ obs' = Op("swap", wr[w].m_coroutine)
    /\ UNCHANGED <<inst, cons, proc>>

\* the end of w's lifetime
Destruct(w) ==
    /\ Owner
    /\ wr[w].alive
    /\ LET R == dtor(inst, Heap, w)
       IN  /\ DestroysOnlySuspended(R)
           /\ wr' = R.wr /\ fr' = R.fr
    /\ obs' = Op("dtor", wr[w].m_coroutine)
    /\ UNCHANGED <<inst, cons, proc>>

\* ----------------------------------------------------------- task: queries
BoolTag(b) == IF b THEN "true" ELSE "false"

\* is_ready() became "has been started"
is_ready_once_started(h) == h = nullptr \/ fr[h].status # "init"

\* bool task::is_ready() const noexcept
is_ready(h) == h = nullptr \/ done(fr[h])

\* await_ready() lost its m_coroutine.done() disjunct
await_ready_null_only(h) == h = nullptr

\* bool awaitable_base::await_ready() const noexcept
await_ready(h) == h = nullptr \/ done(fr[h])

\* t.is_ready(), from any thread that holds a reference to the task
IsReady(w) ==
    /\ Running
    /\ cons.pc \in {"idle", "suspended"}
    /\ inst.kind = "task"
    /\ wr[w].alive
    /\ obs' = [Op("is_ready", wr[w].m_coroutine)
                 EXCEPT !.tag = BoolTag(is_ready(wr[w].m_coroutine))]
    /\ UNCHANGED <<inst, wr, fr, cons, proc>>

\* ------------------------------------------- task: the awaiting coroutine
Flavours == {"lvalue", "rvalue", "when_ready"}

\* co_await t / co_await std::move(t) / co_await t.when_ready(): the
\* awaitable copies m_coroutine and await_ready() is called; when it returns
\* false the awaiting coroutine is suspended and await_suspend() is entered
CoAwait(w, fl) ==
    /\ Owner
    /\ inst.kind = "task"
    /\ wr[w].alive
    /\ LET h == wr[w].m_coroutine
       IN  /\ cons' = [pc |-> IF await_ready(h) THEN "await_resume"
                              ELSE "await_suspend",
                       m_coroutine |-> h, fl |-> fl]
           /\ fr' = IF h # nullptr THEN [fr EXCEPT ![h].consumed = TRUE]
                    ELSE fr
           /\ obs' = NoObs
    /\ UNCHANGED <<inst, wr, proc>>

\* await_suspend, part_000:375: m_coroutine.resume().  The awaiting thread
\* enters the producer's body.  resume() of a coroutine that is not suspended,
\* or is suspended at its final suspend point, is undefined.
AwaitSuspendResume ==
    /\ Running
    /\ cons.pc = "await_suspend"
    /\ LET h == cons.m_coroutine
       IN  IF fr[h].status = "init"
           THEN /\ fr' = [fr EXCEPT ![h].status = "run",
                                    ![h].thread = "consumer"]
                /\ cons' = [cons EXCEPT !.pc = "in_resume"]
                /\ proc' = proc
           ELSE /\ proc' = "undefined"
                /\ UNCHANGED <<fr, cons>>
    /\ obs' = NoObs
    /\ UNCHANGED <<inst, wr>>

\* try_set_continuation, part_000:99: m_continuation = continuation
try_set_continuation_write(p, continuation) ==
    [p EXCEPT !.m_continuation = continuation]

\* try_set_continuation, part_000:100:
\* return !m_state.exchange(true, std::memory_order_acq_rel)
try_set_continuation_exchange(p) ==
    [ret |-> ~p.m_state, p |-> [p EXCEPT !.m_state = TRUE]]

\* resume() has returned to await_suspend: the continuation is written
SetContinuation ==
    /\ Running
    /\ cons.pc = "set_cont"
    /\ fr' = [fr EXCEPT ![cons.m_coroutine] =
                try_set_continuation_write(@, "awaiter")]
    /\ cons' = [cons EXCEPT !.pc = "xchg"]
    /\ obs' = NoObs
    /\ UNCHANGED <<inst, wr, proc>>

\* the exchange, and await_suspend's return of its result: true leaves the
\* awaiting coroutine suspended, false resumes it at once
Exchange ==
    /\ Running
    /\ cons.pc = "xchg"
    /\ LET h == cons.m_coroutine
           r == try_set_continuation_exchange(fr[h])
       IN  /\ fr' = [fr EXCEPT ![h] =
                        [r.p EXCEPT !.suspRet = BoolTag(r.ret),
                                    !.continues = IF r.ret THEN @ ELSE @ + 1]]
           /\ cons' = [cons EXCEPT !.pc = IF r.ret THEN "suspended"
                                          ELSE "await_resume"]
    /\ obs' = NoObs
    /\ UNCHANGED <<inst, wr, proc>>

\* await_resume() lost its check of m_coroutine
co_await_await_resume_unchecked(h) ==
    result(inst, IF h = nullptr THEN NoFrame ELSE fr[h])

\* when_ready()'s await_resume() returns promise().result() as co_await's does
when_ready_await_resume_reads(h) ==
    IF h = nullptr
    THEN {Outcome(IF inst.noexc THEN "terminate" ELSE "raise",
                  broken_promise, NoFrame)}
    ELSE result(inst, fr[h])

\* decltype(auto) operator co_await()::awaitable::await_resume()
\* noexcept(NoExcept), both flavours
co_await_await_resume(h) ==
    IF h = nullptr
    THEN {Outcome(IF inst.noexc THEN "terminate" ELSE "raise",
                  broken_promise, NoFrame)}
    ELSE result(inst, fr[h])

\* void when_ready()::awaitable::await_resume() const noexcept {}
when_ready_await_resume(h) ==
    {Outcome("void", 0, IF h = nullptr THEN NoFrame ELSE fr[h])}

await_resume(fl, h) ==
    IF fl = "when_ready" THEN when_ready_await_resume(h)
    ELSE co_await_await_resume(h)

\* the co_await expression is over: its history is dropped
AwaitOver(p) == [p EXCEPT !.resumes = 0, !.suspRet = "none", !.continues = 0]

AwaitResume ==
    /\ Running
    /\ cons.pc = "await_resume"
    /\ \E o \in await_resume(cons.fl, cons.m_coroutine) :
        /\ obs' = [op |-> "await_resume", h |-> cons.m_coroutine,
                   fl |-> cons.fl, tag |-> o.tag, v |-> o.v]
        /\ fr' = IF cons.m_coroutine # nullptr
                 THEN [fr EXCEPT ![cons.m_coroutine] = AwaitOver(o.p)] ELSE fr
        /\ proc' = CASE o.tag = "terminate" -> "terminated"
                     [] o.tag = "undefined" -> "undefined"
                     [] OTHER -> proc
    /\ cons' = IdleCons
    /\ UNCHANGED <<inst, wr>>

\* ------------------------------------------------ task: the producer's body
\* control returns to whoever called resume() on the frame
ReturnToResumer(thread) ==
    IF thread = "consumer" THEN [cons EXCEPT !.pc = "set_cont"] ELSE cons

\* One segment of a task body, which ends in one of three ways: the body
\* awaits an external event and suspends (only the first segment, run by the
\* awaiting thread, does), the body executes co_return, or an exception
\* escapes the body.  The last two lead to the final suspend point.
BodyStep(f, how) ==
    /\ Running
    /\ inst.kind = "task"
    /\ fr[f].status = "run"
    /\ how = "await" => fr[f].thread # "external"
    /\ obs' = NoObs
    /\ LET p == [fr[f] EXCEPT !.ran = TRUE]
       IN  CASE how = "await" ->
                /\ fr' = [fr EXCEPT ![f] = [p EXCEPT !.status = "wait",
                                                     !.thread = "none"]]
                /\ cons' = ReturnToResumer(p.thread)
                /\ proc' = proc
             [] how = "throw" /\ unhandled_exception_terminates(inst) ->
                /\ fr' = [fr EXCEPT ![f] = p]
                /\ proc' = "terminated"
                /\ cons' = cons
             [] how = "throw" /\ ~unhandled_exception_terminates(inst) ->
                /\ fr' = [fr EXCEPT ![f] =
                            [unhandled_exception(inst, p, Exc(f))
                             EXCEPT !.status = "final_xchg",
                                    !.outcome = "exception"]]
                /\ cons' = cons
                /\ proc' = proc
             [] OTHER ->
                /\ fr' = [fr EXCEPT ![f] =
                            [return_value(inst, p, Val(f, 0))
                             EXCEPT !.status = "final_xchg",
                                    !.outcome = "value"]]
                /\ cons' = cons
                /\ proc' = proc
    /\ UNCHANGED <<inst, wr>>

\* the external event completes and its scheduler resumes the producer, on a
\* thread of its own
ExternalResume(f) ==
    /\ Running
    /\ inst.kind = "task"
    /\ fr[f].status = "wait"
    /\ fr' = [fr EXCEPT ![f].status = "run", ![f].thread = "external"]
    /\ obs' = NoObs
    /\ UNCHANGED <<inst, wr, cons, proc>>

\* the final awaitable resumes the continuation whatever the exchange returns
final_awaitable_await_suspend_always(p) ==
    [resume |-> TRUE, p |-> [p EXCEPT !.m_state = TRUE]]

\* final_awaitable::await_suspend, part_000:63:
\* if (promise.m_state.exchange(true, std::memory_order_acq_rel))
final_awaitable_await_suspend(p) ==
    [resume |-> p.m_state, p |-> [p EXCEPT !.m_state = TRUE]]

FinalExchange(f) ==
    /\ Running
    /\ fr[f].status = "final_xchg"
    /\ LET r == final_awaitable_await_suspend(fr[f])
       IN  IF r.resume
           THEN /\ fr' = [fr EXCEPT ![f] =
                            [r.p EXCEPT !.status = "final_resume"]]
                /\ cons' = cons
           ELSE /\ fr' = [fr EXCEPT ![f] =
                            [r.p EXCEPT !.status = "final", !.thread = "none"]]
                /\ cons' = ReturnToResumer(fr[f].thread)
    /\ obs' = NoObs
    /\ UNCHANGED <<inst, wr, proc>>

\* final_awaitable::await_suspend, part_000:65: promise.m_continuation.resume().
\* resume() of a null handle, or of a coroutine that is not suspended, is
\* undefined.
FinalResume(f) ==
    /\ Running
    /\ fr[f].status = "final_resume"
    /\ fr' = [fr EXCEPT ![f].status = "final", ![f].thread = "none",
                        ![f].resumes = @ + 1,
                        ![f].continues = @ + 1]
    /\ IF /\ fr[f].m_continuation = "awaiter"
          /\ cons.pc = "suspended"
          /\ cons.m_coroutine = f
       THEN cons' = [cons EXCEPT !.pc = "await_resume"] /\ proc' = proc
       ELSE cons' = cons /\ proc' = "undefined"
    /\ obs' = NoObs
    /\ UNCHANGED <<inst, wr>>

\* --------------------------------------------------------- the generators
\* coroutine_handle::resume() on a generator coroutine: the body runs up to
\* its next co_yield (how = "yield": yield_value stores the address of the
\* value and suspends), to its end (how = "return": return_void, then
\* final_suspend) or to an escaping exception (how = "throw":
\* unhandled_exception, then final_suspend).  Bodies yield values only here,
\* so every recursive_generator promise is its own root and its own leaf:
\* yield_value(recursive_generator&) is part of IterSpec, below.
generator_resume(p, f, how) ==
    CASE how = "yield" ->
            [p EXCEPT !.ran = TRUE, !.pos = @ + 1, !.status = "yield",
                      !.m_value = Val(f, p.pos + 1)]
      [] how = "throw" ->
            [exception_promise_unhandled_exception(p, Exc(f))
                EXCEPT !.ran = TRUE, !.status = "final",
                       !.outcome = "exception"]
      [] OTHER ->
            [p EXCEPT !.ran = TRUE, !.status = "final", !.outcome = "value"]

\* what a body may do next
Hows(p) == {"return", "throw"} \cup (IF p.pos < MaxYield THEN {"yield"} ELSE {})

\* resume() is defined on a coroutine suspended before its final suspend point
Resumable(p) == p.status \in {"init", "yield"}

\* recursive_generator::promise_type::pull(): m_parentOrLeaf->resume(), then
\* the ascent through completed nested leaves, which needs a leaf other than
\* the root
pull(F, root, how) ==
    LET leaf == F[root].m_parentOrLeaf
    IN  [F EXCEPT ![leaf] = generator_resume(@, leaf, how)]

\* the exception that leaves begin(): rethrow_if_exception() is called when
\* the coroutine is done() after the resume
BeginOutcomes(p) ==
    IF done(p) THEN rethrow_if_exception(inst, p)
    ELSE {[raised |-> nullptr, p |-> p]}

\* iterator generator::begin() and iterator recursive_generator::begin()
Begin(w, how) ==
    /\ Owner
    /\ inst.kind # "task"
    /\ wr[w].alive
    /\ cons' = cons
    /\ UNCHANGED <<inst, wr>>
    /\ LET h == wr[w].m_coroutine
       IN  IF h = nullptr
           THEN /\ obs' = [Op("begin", nullptr) EXCEPT !.tag = "end"]
                /\ UNCHANGED <<fr, proc>>
           ELSE IF ~Resumable(fr[h])
           THEN /\ obs' = [Op("begin", h) EXCEPT !.tag = "undefined"]
                /\ proc' = "undefined"
                /\ fr' = [fr EXCEPT ![h].consumed = TRUE]
           ELSE IF how = "throw" /\ unhandled_exception_terminates(inst)
           THEN /\ how \in Hows(fr[h])
                /\ obs' = [Op("begin", h) EXCEPT !.tag = "terminate"]
                /\ proc' = "terminated"
                /\ fr' = [fr EXCEPT ![h].consumed = TRUE, ![h].ran = TRUE]
           ELSE /\ how \in Hows(fr[h])
                /\ proc' = proc
                /\ LET F == IF inst.kind = "generator"
                            THEN [fr EXCEPT ![h] =
                                    generator_resume([@ EXCEPT !.consumed = TRUE],
                                                     h, how)]
                            ELSE pull([fr EXCEPT ![h].consumed = TRUE], h, how)
                   IN  \E r \in BeginOutcomes(F[h]) :
                        /\ fr' = [F EXCEPT ![h] = r.p]
                        /\ obs' = [Op("begin", h) EXCEPT
                                    !.tag = IF r.raised # nullptr THEN "raise"
                                            ELSE IF done(r.p) THEN "end"
                                            ELSE "value",
                                    !.v = IF r.raised # nullptr THEN r.raised
                                          ELSE IF done(r.p) THEN 0
                                          ELSE r.p.m_value]

\* ------------------------------------------------------------ specification
Init ==
    /\ inst \in Instances
    /\ wr = [w \in Wrappers |-> DeadWrapper]
    /\ fr = [f \in Frames |-> NoFrame]
    /\ cons = IdleCons
    /\ obs = NoObs
    /\ proc = "running"

Next ==
    \/ \E w \in Wrappers : DefaultConstruct(w)
    \/ \E w \in Wrappers : Call(w)
    \/ \E w, src \in Wrappers : MoveConstruct(w, src)
    \/ \E w, src \in Wrappers : MoveAssign(w, src)
    \/ \E w, other \in Wrappers : Swap(w, other)
    \/ \E w \in Wrappers : Destruct(w)
    \/ \E w \in Wrappers : IsReady(w)
    \/ \E w \in Wrappers : \E how \in {"yield", "return", "throw"} : Begin(w, how)
    \/ \E w \in Wrappers : \E fl \in Flavours : CoAwait(w, fl)
    \/ AwaitSuspendResume
    \/ SetContinuation
    \/ Exchange
    \/ AwaitResume
    \/ \E f \in Frames : \E how \in {"await", "return", "throw"} : BodyStep(f, how)
    \/ \E f \in Frames : ExternalResume(f)
    \/ \E f \in Frames : FinalExchange(f)
    \/ \E f \in Frames : FinalResume(f)
    \/ Continue

Spec == Init /\ [][Next]_vars

\* ------------------------------------------------------------------ claims
\* the steps of the awaiting coroutine, told by its position before and after
CoAwaitStep == cons.pc = "idle" /\ cons'.pc # "idle"

AwaitResumeStep == cons.pc = "await_resume" /\ cons'.pc = "idle"

\* the result slot of a promise
Slot(p) ==
    [m_resultType |-> p.m_resultType, m_hasValue |-> p.m_hasValue,
     m_value |-> p.m_value, m_exception |-> p.m_exception]

\* the slot holds a value or an exception
SlotNonEmpty(p) ==
    CASE inst.rtype = "void" -> TRUE
      [] inst.rtype = "ref" -> p.m_value # nullptr \/ p.m_exception # nullptr
      [] inst.rtype = "value" /\ inst.noexc -> p.m_hasValue
      [] OTHER -> p.m_resultType # "empty"

\* what the body of frame f produced: the outcome a consumer is owed
Owed(f) ==
    CASE fr[f].outcome = "exception" -> [tag |-> "raise", v |-> Exc(f)]
      [] fr[f].outcome = "value" /\ inst.rtype = "void" ->
            [tag |-> "void", v |-> 0]
      [] fr[f].outcome = "value" -> [tag |-> "value", v |-> Val(f, 0)]
      [] OTHER -> [tag |-> "none", v |-> 0]

\* C1: in every interleaving of the producer's final_awaitable::await_suspend
\* with the consumer's await_suspend / try_set_continuation, the consumer
\* continues exactly once: either the producer calls m_continuation.resume()
\* once and the consumer had suspended (await_suspend returned true), or
\* await_suspend returned false and the producer calls no resume; the
\* consumer is never left suspended once the producer has completed, and is
\* never resumed twice.
C1_SingleResume ==
    /\ \A f \in Frames :
        /\ fr[f].resumes <= 1
        /\ fr[f].continues <= 1
        /\ fr[f].suspRet = "false" => fr[f].resumes = 0 /\ fr[f].continues = 1
        /\ fr[f].resumes = 1 => fr[f].suspRet = "true"
        /\ fr[f].status = "final" /\ fr[f].suspRet = "true" =>
                fr[f].resumes = 1 /\ fr[f].continues = 1
    /\ cons.pc = "suspended" => fr[cons.m_coroutine].status # "final"

\* C1 witness: the consumer registered first and suspended, and the producer,
\* completing on its own thread, has just resumed it (once)
C1_Witness ==
    \E f \in Frames :
        /\ fr[f].resumes = 1 /\ fr[f].continues = 1
        /\ fr[f].suspRet = "true"
        /\ cons.pc = "await_resume" /\ cons.m_coroutine = f

\* C2: whenever the consumer of a non-empty task runs await_resume, the
\* producer has run to completion and its result slot holds a value or an
\* exception; and the producer reads m_continuation only after the consumer
\* wrote it.
C2_ResultReady ==
    /\ cons.pc = "await_resume" /\ cons.m_coroutine # nullptr =>
            /\ fr[cons.m_coroutine].outcome # "none"
            /\ done(fr[cons.m_coroutine])
            /\ SlotNonEmpty(fr[cons.m_coroutine])
    /\ \A f \in Frames :
            fr[f].status = "final_resume" => fr[f].m_continuation = "awaiter"

\* C3 as claimed: co_await (either flavour) of an empty task raises
\* broken_promise at the await point, without suspending the awaiter and
\* without resuming any computation; constructing or moving a task never
\* raises.
C3_BrokenPromiseRaised ==
    [][/\ CoAwaitStep /\ cons'.m_coroutine = nullptr =>
            cons'.pc = "await_resume" /\ fr' = fr
       /\ AwaitResumeStep /\ cons.m_coroutine = nullptr
                          /\ cons.fl # "when_ready" =>
            /\ obs'.tag = "raise" /\ obs'.v = broken_promise
            /\ fr' = fr /\ proc' = proc
       /\ wr' # wr => obs'.tag # "raise" /\ proc' = proc]_vars

\* C3 as amended: the same, but an empty task<T, true> terminates the process
\* at the await point where an empty task<T, false> raises broken_promise.
C3_BrokenPromise ==
    [][/\ CoAwaitStep /\ cons'.m_coroutine = nullptr =>
            cons'.pc = "await_resume" /\ fr' = fr
       /\ AwaitResumeStep /\ cons.m_coroutine = nullptr
                          /\ cons.fl # "when_ready" =>
            /\ obs'.v = broken_promise
            /\ fr' = fr
            /\ IF inst.noexc
               THEN obs'.tag = "terminate" /\ proc' = "terminated"
               ELSE obs'.tag = "raise" /\ proc' = proc
       /\ wr' # wr => obs'.tag # "raise" /\ proc' = proc]_vars

\* C3 witness: an empty task was awaited while another wrapper owns a
\* computation that has not been started, and broken_promise was raised
C3_Witness ==
    /\ obs.op = "await_resume" /\ obs.h = nullptr /\ obs.fl \in {"lvalue", "rvalue"}
    /\ obs.tag = "raise" /\ obs.v = broken_promise
    /\ \E w \in Wrappers : /\ wr[w].alive /\ wr[w].m_coroutine # nullptr
                           /\ fr[wr[w].m_coroutine].status = "init"

\* C5: is_ready() returns true iff the task is empty or its computation has
\* run to completion, whatever state the computation is in, and the call
\* changes nothing.
C5_IsReady ==
    [][obs'.op = "is_ready" =>
        /\ obs'.tag = BoolTag(obs'.h = nullptr \/ fr[obs'.h].outcome # "none")
        /\ UNCHANGED <<wr, fr, cons, proc>>]_vars

\* C5 witness: is_ready() answered false for a computation that is started
\* and suspended, its awaiter waiting
C5_Witness ==
    /\ obs.op = "is_ready" /\ obs.tag = "false" /\ obs.h # nullptr
    /\ fr[obs.h].status = "wait"
    /\ cons.pc = "suspended"

\* C6: awaiting a task for which is_ready() is true does not suspend the
\* awaiter and resumes nothing: await_ready returns true, await_suspend is
\* not entered and await_resume runs next.
C6_ReadyAwait ==
    [][CoAwaitStep /\ is_ready(cons'.m_coroutine) =>
        /\ cons'.pc = "await_resume"
        /\ \A f \in Frames : /\ fr'[f].status = fr[f].status
                             /\ fr'[f].thread = fr[f].thread
                             /\ fr'[f].m_state = fr[f].m_state]_vars

\* C6 witness: a completed task is in await_resume without having been through
\* await_suspend in this co_await
C6_Witness ==
    /\ cons.pc = "await_resume" /\ cons.m_coroutine # nullptr
    /\ fr[cons.m_coroutine].status = "final"
    /\ fr[cons.m_coroutine].suspRet = "none"

\* C7: for every fallible task result type, every result() call on a
\* completed task gives the outcome the body produced (the stored value, or a
\* re-raise of the stored exception) and leaves the result slot as it was.
C7_ResultIdempotent ==
    [][AwaitResumeStep /\ cons.fl # "when_ready" /\ cons.m_coroutine # nullptr
                       /\ ~inst.noexc =>
        /\ obs'.tag = Owed(cons.m_coroutine).tag
        /\ obs'.v = Owed(cons.m_coroutine).v
        /\ Slot(fr'[cons.m_coroutine]) = Slot(fr[cons.m_coroutine])]_vars

\* C8: in fallible mode rethrow_if_exception() is a no-op when no exception
\* was captured, and every call re-raises a captured exception and leaves it
\* captured.  (task_promise<void> and task_promise<T&> call it from result().)
C8_RethrowKeeps ==
    [][AwaitResumeStep /\ cons.fl # "when_ready" /\ cons.m_coroutine # nullptr
                       /\ ~inst.noexc /\ UsesExceptionPromise(inst) =>
        LET f == cons.m_coroutine IN
        /\ fr[f].outcome # "exception" =>
                obs'.tag # "raise" /\ fr'[f].m_exception = nullptr
        /\ fr[f].outcome = "exception" =>
                /\ obs'.tag = "raise" /\ obs'.v = Exc(f)
                /\ fr'[f].m_exception = Exc(f)]_vars

\* C9: co_await t.when_ready() goes through the same await_ready and
\* await_suspend as co_await t, and its await_resume raises nothing (neither
\* the stored exception nor broken_promise) and leaves the result slot as it
\* is.
C9_WhenReady ==
    [][/\ CoAwaitStep /\ cons'.fl = "when_ready" =>
            cons'.pc = (IF cons'.m_coroutine = nullptr
                           \/ fr[cons'.m_coroutine].outcome # "none"
                        THEN "await_resume" ELSE "await_suspend")
       /\ AwaitResumeStep /\ cons.fl = "when_ready" =>
            /\ obs'.tag = "void"
            /\ proc' = proc
            /\ cons.m_coroutine # nullptr =>
                Slot(fr'[cons.m_coroutine]) = Slot(fr[cons.m_coroutine])]_vars

\* C9 witness: when_ready() was awaited on a task that failed, through
\* await_suspend and the producer's resume, and returned without raising; the
\* exception is still stored
C9_Witness ==
    /\ obs.op = "await_resume" /\ obs.fl = "when_ready" /\ obs.tag = "void"
    /\ obs.h # nullptr
    /\ fr[obs.h].outcome = "exception"
    /\ fr[obs.h].m_exception = Exc(obs.h)

\* the operations on wrappers: construction, move, swap and destruction
WrapperOps ==
    {"default_ctor", "call", "move_ctor", "move_assign", "swap", "dtor"}

\* a frame that exists: created and not destroyed
Live(p) == p.status \notin {"unalloc", "destroyed"}

\* the wrappers that hold frame f
OwnersOf(f) == {w \in Wrappers : wr[w].alive /\ wr[w].m_coroutine = f}

\* C4: for task, generator and recursive_generator alike, calling the
\* coroutine function (constructing the wrapper) and moving, swapping or
\* destroying the wrapper execute no step of the body: a new frame stops at
\* its initial suspend point, and a computation that nobody has consumed yet
\* (co_await for a task, begin() for a generator) is still there, not started.
C4_Lazy ==
    /\ [](\A f \in Frames :
            Live(fr[f]) /\ ~fr[f].consumed =>
                /\ fr[f].status = "init"
                /\ ~fr[f].ran /\ fr[f].pos = 0 /\ fr[f].outcome = "none")
    /\ [][obs'.op \in WrapperOps =>
            \A f \in Frames :
                /\ fr[f].status = "unalloc" /\ fr'[f].status # "unalloc" =>
                        fr'[f].status = "init" /\ ~fr'[f].ran
                /\ fr[f].status # "unalloc" =>
                        fr'[f] = fr[f] \/ fr'[f].status = "destroyed"]_vars

\* C4 witness: a recursive_generator was created by a call and has just been
\* moved into another wrapper; nobody has called begin(), and its coroutine
\* is at the initial suspend point
C4_Witness ==
    /\ inst.kind = "recursive_generator"
    /\ obs.op = "move_ctor" /\ obs.h # nullptr
    /\ OwnersOf(obs.h) # {}
    /\ fr[obs.h].status = "init" /\ ~fr[obs.h].consumed /\ ~fr[obs.h].ran

\* C10: every computation is held by exactly one wrapper from its creation to
\* its destruction, and is destroyed exactly once: never twice, and never
\* leaked once all wrappers are gone.  Move construction and move assignment
\* transfer the handle and leave the source empty; move assignment over a
\* non-empty wrapper destroys the computation it held; swap exchanges the two
\* handles and destroys nothing; the destructor destroys what the wrapper
\* holds.
C10_Ownership ==
    /\ [](/\ \A f \in Frames :
                /\ fr[f].destroys <= 1
                /\ Live(fr[f]) => Cardinality(OwnersOf(f)) = 1
                /\ ~Live(fr[f]) => OwnersOf(f) = {}
          /\ (\A w \in Wrappers : ~wr[w].alive) =>
                \A f \in Frames :
                    fr[f].status # "unalloc" =>
                        fr[f].status = "destroyed" /\ fr[f].destroys = 1)
    /\ [][/\ obs'.op = "move_ctor" => \A w, src \in Wrappers :
                MoveConstruct(w, src) =>
                    /\ wr'[w].alive
                    /\ wr'[w].m_coroutine = wr[src].m_coroutine
                    /\ wr'[src].m_coroutine = nullptr
                    /\ fr' = fr
          /\ obs'.op = "move_assign" => \A w, src \in Wrappers :
                MoveAssign(w, src) /\ w # src =>
                    /\ wr'[w].m_coroutine = wr[src].m_coroutine
                    /\ wr'[src].m_coroutine = nullptr
                    /\ \A f \in Frames :
                        IF f = wr[w].m_coroutine
                        THEN fr'[f].status = "destroyed" /\ fr'[f].destroys = 1
                        ELSE fr'[f] = fr[f]
          /\ obs'.op = "swap" => \A w, other \in Wrappers :
                Swap(w, other) =>
                    /\ wr'[w].m_coroutine = wr[other].m_coroutine
                    /\ wr'[other].m_coroutine = wr[w].m_coroutine
                    /\ fr' = fr
          /\ obs'.op = "dtor" => \A w \in Wrappers :
                Destruct(w) =>
                    /\ ~wr'[w].alive
                    /\ \A x \in Wrappers \ {w} : wr'[x] = wr[x]
                    /\ \A f \in Frames :
                        IF f = wr[w].m_coroutine
                        THEN fr'[f].status = "destroyed" /\ fr'[f].destroys = 1
                        ELSE fr'[f] = fr[f]]_vars

\* C10 witness: a wrapper that held a computation has just been move-assigned
\* from another wrapper that held one: the computation it held is destroyed
\* (once), it holds the other computation, and the source is alive and empty
C10_Witness ==
    /\ obs.op = "move_assign" /\ obs.h # nullptr
    /\ fr[obs.h].status = "destroyed" /\ fr[obs.h].destroys = 1
    /\ \E w, src \in Wrappers :
        /\ w # src
        /\ wr[w].alive /\ wr[w].m_coroutine \notin {nullptr, obs.h}
        /\ Live(fr[wr[w].m_coroutine])
        /\ wr[src].alive /\ wr[src].m_coroutine = nullptr

\* ================================================================ iteration
\* Generators, recursive generators with nested bodies, and fmap, step by
\* step.  A pull is one begin() or operator++ of the consumer: it resumes a
\* coroutine, whose body runs one co_yield statement, returns or throws; a
\* suspended or completed coroutine hands control back to the call that
\* resumed it (cons.ret is the coroutine whose resume() is returning).  The
\* consumer's iterator is cons.m_coroutine; cons.target is the coroutine the
\* pull in progress is on, cons.fl the operation.  The other fields of cons
\* are the history of the pull in progress: yields (values yielded by user
\* bodies), thrown / depth / first (the last exception that escaped a body,
\* the depth of that body, whether it was inside its first resume()), src /
\* srcv / pulls (what the source gave to fmap, and how often it was asked).
IterIdle ==
    [pc |-> "idle", m_coroutine |-> nullptr, fl |-> "none",
     target |-> nullptr, ret |-> nullptr,
     yields |-> 0, thrown |-> nullptr, depth |-> 0, first |-> FALSE,
     src |-> "none", srcv |-> 0, pulls |-> 0]

\* the promise type of a frame: fmap is a coroutine that returns
\* generator<R>, with NoExcept = false
PromiseInst(p) ==
    IF p.body = "fmap"
    THEN [kind |-> "generator", rtype |-> "value", noexc |-> FALSE]
    ELSE inst

KindOf(p) == PromiseInst(p).kind

IterFree == {f \in IterFrames : fr[f].status = "unalloc"}

IterNextFrame == CHOOSE f \in IterFrames : f \in IterFree /\ \A g \in IterFree : f <= g

\* the frame of a call of a user coroutine function whose body is at place
\* path of the tree
UserFrame(f, path) ==
    [NewFrame(inst, f) EXCEPT !.body = "user", !.path = path]

\* the frame of a call fmap(func, std::move(source)): the source parameter
\* lives in the frame, and the body stops at initial_suspend
FmapFrame(source) ==
    [NoFrame EXCEPT !.status = IF generator_initial_suspend = "suspend_always"
                               THEN "init" ELSE "run",
                    !.body = "fmap", !.child = source]

\* the iterator of the consumer is dropped with the generator it refers to
DropIterator(F) ==
    IF cons.m_coroutine # nullptr /\ F[cons.m_coroutine].status = "destroyed"
    THEN IterIdle ELSE cons

\* ----------------------------------------------------- the generator objects
\* G w = f();  (a behaviour follows one coroutine function call and the fmap
\* generators made of its result)
ICall(w) ==
    /\ Owner
    /\ Fresh(w)
    /\ \A x \in Wrappers : ~wr[x].alive
    /\ \A f \in IterFrames : fr[f].status = "unalloc"
    /\ IterFree # {}
    /\ LET f == IterNextFrame
           R == handle_ctor(Heap, w, f, UserFrame(f, <<>>))
       IN  /\ wr' = R.wr /\ fr' = R.fr
           /\ obs' = Op("call", f)
    /\ UNCHANGED <<inst, cons, proc>>

\* generator<R> w = fmap(func, std::move(src));  and the end of the lifetime
\* of src, which is empty after the move
IFmap(w, src) ==
    /\ Owner
    /\ inst.kind # "task"
    /\ Fresh(w)
    /\ wr[src].alive
    /\ IterFree # {}
    /\ LET m == IterNextFrame
           source == wr[src].m_coroutine
           R == handle_ctor(dtor(inst, [Heap EXCEPT !.wr[src].m_coroutine = nullptr],
                                 src),
                            w, m, FmapFrame(source))
       IN  /\ wr' = R.wr /\ fr' = R.fr
           /\ obs' = Op("fmap", source)
           /\ cons' = IF source # nullptr /\ cons.m_coroutine = source
                      THEN IterIdle ELSE cons
    /\ UNCHANGED <<inst, proc>>

\* the end of w's lifetime; obs.v is the number of frames released
IDestruct(w) ==
    /\ Owner
    /\ wr[w].alive
    /\ LET R == dtor(inst, Heap, w)
       IN  /\ \A f \in IterFrames :
                R.fr[f].destroys # fr[f].destroys => Suspended(fr[f])
           /\ wr' = R.wr /\ fr' = R.fr
           /\ obs' = [Op("dtor", wr[w].m_coroutine) EXCEPT
                        !.v = Cardinality({f \in IterFrames :
                                            R.fr[f].destroys # fr[f].destroys})]
           /\ cons' = DropIterator(R.fr)
    /\ UNCHANGED <<inst, proc>>

\* ------------------------------------------------------ the consumer's pull
\* the coroutine that begin() / operator++ on root r resumes: r itself
\* (generator.hpp:189, 120), or the leaf of r's chain (pull(), line 200)
ResumeTarget(F, r) ==
    IF KindOf(F[r]) = "recursive_generator" THEN F[r].m_parentOrLeaf ELSE r

\* resume() of the coroutine a pull on r starts with; resume() is defined on
\* a coroutine that exists and is suspended before its final suspend point
CanPull(F, r) ==
    /\ Live(F[r])
    /\ Live(F[ResumeTarget(F, r)])
    /\ Resumable(F[ResumeTarget(F, r)])

StartPull(F, r) ==
    [F EXCEPT ![ResumeTarget(F, r)].status = "run",
              ![ResumeTarget(F, r)].consumed = TRUE,
              ![r].consumed = TRUE]

\* it = w.begin();
IBegin(w) ==
    /\ Owner
    /\ inst.kind # "task"
    /\ wr[w].alive
    /\ LET h == wr[w].m_coroutine
       IN  IF h = nullptr
           THEN /\ obs' = [Op("begin", nullptr) EXCEPT !.tag = "end"]
                /\ cons' = IterIdle
                /\ UNCHANGED <<fr, proc>>
           ELSE IF ~CanPull(fr, h)
           THEN /\ obs' = [Op("begin", h) EXCEPT !.tag = "undefined"]
                /\ proc' = "undefined"
                /\ UNCHANGED <<fr, cons>>
           ELSE /\ fr' = StartPull(fr, h)
                /\ cons' = [IterIdle EXCEPT !.pc = "pull", !.fl = "begin",
                                            !.target = h,
                                            !.m_coroutine = cons.m_coroutine]
                /\ UNCHANGED <<obs, proc>>
    /\ UNCHANGED <<inst, wr>>

\* ++it;  (the consumer increments an iterator that is not at the end)
IIncrement ==
    /\ Owner
    /\ inst.kind # "task"
    /\ cons.m_coroutine # nullptr
    /\ Live(fr[cons.m_coroutine])
    /\ ~done(fr[cons.m_coroutine])
    /\ CanPull(fr, cons.m_coroutine)
    /\ fr' = StartPull(fr, cons.m_coroutine)
    /\ cons' = [IterIdle EXCEPT !.pc = "pull", !.fl = "increment",
                                !.target = cons.m_coroutine,
                                !.m_coroutine = cons.m_coroutine]
    /\ UNCHANGED <<inst, wr, obs, proc>>

\* an operator== that only looks at the handle
generator_iterator_equals_end_null_only(F, h) == h = nullptr

\* bool operator==(const generator_iterator& it, generator_sentinel)
generator_iterator_equals_end(F, h) == h = nullptr \/ done(F[h])

\* bool recursive_generator::iterator::operator==(end())
recursive_generator_iterator_equals_end(F, h) == h = nullptr

iterator_equals_end(F, h) ==
    IF h # nullptr /\ KindOf(F[h]) = "recursive_generator"
    THEN recursive_generator_iterator_equals_end(F, h)
    ELSE generator_iterator_equals_end(F, h)

\* it == end()
IEqualsEnd ==
    /\ Owner
    /\ inst.kind # "task"
    /\ cons.m_coroutine # nullptr => Live(fr[cons.m_coroutine])
    /\ obs' = [Op("equals_end", cons.m_coroutine) EXCEPT
                !.tag = BoolTag(iterator_equals_end(fr, cons.m_coroutine))]
    /\ UNCHANGED <<inst, wr, fr, cons, proc>>

\* generator_promise::value(): *m_value
generator_value(F, h) == F[h].m_value

\* recursive_generator::promise_type::value(): *(m_parentOrLeaf->m_value)
recursive_generator_value(F, h) == F[F[h].m_parentOrLeaf].m_value

value(F, h) ==
    IF KindOf(F[h]) = "recursive_generator" THEN recursive_generator_value(F, h)
    ELSE generator_value(F, h)

\* *it;  (the consumer dereferences an iterator that is not at the end)
IDeref ==
    /\ Owner
    /\ inst.kind # "task"
    /\ cons.m_coroutine # nullptr
    /\ Live(fr[cons.m_coroutine])
    /\ ~done(fr[cons.m_coroutine])
    /\ fr[cons.m_coroutine].status # "init"
    /\ obs' = [Op("deref", cons.m_coroutine) EXCEPT
                !.tag = "value", !.v = value(fr, cons.m_coroutine)]
    /\ UNCHANGED <<inst, wr, fr, cons, proc>>

\* ------------------------------------------------------------- user bodies
\* a user body that is executing and may execute one more co_yield statement
Runs(f) ==
    /\ Running
    /\ cons.pc = "pull"
    /\ fr[f].status = "run"
    /\ fr[f].body = "user"

\* co_yield v;  yield_value(T&): m_value = std::addressof(value), and the
\* coroutine suspends
IYieldValue(f) ==
    /\ Runs(f)
    /\ fr[f].pos < MaxItems
    /\ fr' = [fr EXCEPT ![f].pos = @ + 1, ![f].ran = TRUE,
                        ![f].m_value = ItemVal(Append(fr[f].path, fr[f].pos + 1)),
                        ![f].status = "yield"]
    /\ cons' = [cons EXCEPT !.ret = f, !.yields = @ + 1]
    /\ UNCHANGED <<inst, wr, obs, proc>>

\* yield_value(recursive_generator&), exception_promise.hpp:158-160:
\* m_root->m_parentOrLeaf = generator.m_promise; generator.m_promise->m_root =
\* m_root; generator.m_promise->m_parentOrLeaf = this
\* a yield_value that gives the nested promise no root
yield_value_link_no_root(F, f, c) ==
    [F EXCEPT ![F[f].m_root].m_parentOrLeaf = c,
              ![c].m_parentOrLeaf = f]

yield_value_link(F, f, c) ==
    [F EXCEPT ![F[f].m_root].m_parentOrLeaf = c,
              ![c].m_root = F[f].m_root,
              ![c].m_parentOrLeaf = f]

\* co_yield g(...);  The nested coroutine function is called (its body stops
\* at initial_suspend), yield_value(recursive_generator&) links its promise
\* into the chain and calls generator.m_promise->resume() (line 161): the
\* nested body starts inside this call.
IYieldNested(f) ==
    /\ Runs(f)
    /\ inst.kind = "recursive_generator"
    /\ fr[f].pos < MaxItems
    /\ IterFree # {}
    /\ LET c == IterNextFrame
           F1 == [fr EXCEPT ![c] = UserFrame(c, Append(fr[f].path, fr[f].pos + 1)),
                            ![f].pos = @ + 1, ![f].ran = TRUE,
                            ![f].child = c, ![f].status = "call"]
           F2 == yield_value_link(F1, f, c)
       IN  fr' = [F2 EXCEPT ![c].status = "run", ![c].consumed = TRUE]
    /\ UNCHANGED <<inst, wr, cons, obs, proc>>

\* co_yield recursive_generator<T>{};  generator.m_promise is null (line 156):
\* awaitable{nullptr} is ready and the body goes on
IYieldNull(f) ==
    /\ Runs(f)
    /\ inst.kind = "recursive_generator"
    /\ fr[f].pos < MaxItems
    /\ fr' = [fr EXCEPT ![f].pos = @ + 1, ![f].ran = TRUE]
    /\ UNCHANGED <<inst, wr, cons, obs, proc>>

\* the body returns: return_void(), then final_suspend()
IReturn(f) ==
    /\ Runs(f)
    /\ fr' = [fr EXCEPT ![f].ran = TRUE, ![f].status = "final",
                        ![f].outcome = "value"]
    /\ cons' = [cons EXCEPT !.ret = f]
    /\ UNCHANGED <<inst, wr, obs, proc>>

\* f is inside the resume() call of its parent's yield_value
InFirstResume(F, f) ==
    \E p \in IterFrames :
        F[p].status = "call" /\ F[p].body = "user" /\ F[p].child = f

\* an exception escapes the body: unhandled_exception(), then final_suspend()
IThrow(f) ==
    /\ Runs(f)
    /\ IF unhandled_exception_terminates(inst)
       THEN /\ proc' = "terminated"
            /\ fr' = [fr EXCEPT ![f].ran = TRUE]
            /\ cons' = cons
       ELSE /\ proc' = proc
            /\ fr' = [fr EXCEPT ![f] =
                        [exception_promise_unhandled_exception(@, Exc(f))
                            EXCEPT !.ran = TRUE, !.status = "final",
                                   !.outcome = "exception"]]
            /\ cons' = [cons EXCEPT !.ret = f, !.thrown = Exc(f),
                                    !.depth = Len(fr[f].path) + 1,
                                    !.first = InFirstResume(fr, f)]
    /\ UNCHANGED <<inst, wr, obs>>

\* ---------------------------------------------------------- resume() returns
\* control is back in the call that resumed cons.ret
Returns(f) ==
    /\ Running
    /\ cons.pc = "pull"
    /\ cons.ret = f

\* a yield_value that leaves the leaf pointer at a child that completed at once
yield_value_after_resume_keeps_leaf(F, p, c) ==
    IF ~done(F[c])
    THEN [suspend |-> TRUE, F |-> [F EXCEPT ![p].status = "nest"]]
    ELSE [suspend |-> FALSE,
          F |-> [destroy(F, c) EXCEPT ![p].status = "run", ![p].child = nullptr]]

\* yield_value(recursive_generator&), lines 163-171, after
\* generator.m_promise->resume() has returned to parent p: a child that is not
\* complete is awaited (awaitable{child}: p suspends), a complete one is not
\* (m_root->m_parentOrLeaf = this; awaitable{nullptr}: p goes on, and the
\* nested generator object is destroyed at the end of the co_yield expression)
yield_value_after_resume(F, p, c) ==
    IF ~done(F[c])
    THEN [suspend |-> TRUE, F |-> [F EXCEPT ![p].status = "nest"]]
    ELSE [suspend |-> FALSE,
          F |-> [destroy([F EXCEPT ![F[p].m_root].m_parentOrLeaf = p], c)
                    EXCEPT ![p].status = "run", ![p].child = nullptr]]

YieldValueReturns(f) ==
    /\ Returns(f)
    /\ \E p \in IterFrames :
        /\ fr[p].status = "call" /\ fr[p].body = "user" /\ fr[p].child = f
        /\ LET r == yield_value_after_resume(fr, p, f)
           IN  /\ fr' = r.F
               /\ cons' = [cons EXCEPT !.ret = IF r.suspend THEN p ELSE nullptr]
    /\ UNCHANGED <<inst, wr, obs, proc>>

\* the fmap bodies that are inside begin() / operator++ of their source
FmapCallers(F) ==
    {m \in IterFrames : F[m].status = "call" /\ F[m].body = "fmap"}

\* the generator the innermost pull in progress is on
PullRoot(F) ==
    IF FmapCallers(F) = {} THEN cons.target
    ELSE F[CHOOSE m \in FmapCallers(F) : F[m].child \notin FmapCallers(F)].child

\* a pull() without the loop
pull_loop_condition_never(F, r) == FALSE

\* pull(), line 202: m_parentOrLeaf != this && m_parentOrLeaf->is_complete()
pull_loop_condition(F, r) ==
    F[r].m_parentOrLeaf # r /\ done(F[F[r].m_parentOrLeaf])

\* the ascent went straight back to the root
pull_ascend_to_root(F, r) == [F EXCEPT ![r].m_parentOrLeaf = r]

\* pull(), line 204: m_parentOrLeaf = m_parentOrLeaf->m_parentOrLeaf
pull_ascend(F, r) ==
    [F EXCEPT ![r].m_parentOrLeaf = F[F[r].m_parentOrLeaf].m_parentOrLeaf]

\* an await_resume() that never looks at the child
yield_awaitable_await_resume_ignores(F, c) ==
    {[raised |-> nullptr, p |-> F[c]]}

\* awaitable::await_resume() of yield_value(recursive_generator&), lines
\* 144-150, with m_childPromise = c # nullptr:
\* m_childPromise->rethrow_if_exception()
yield_awaitable_await_resume(F, c) == rethrow_if_exception(inst, F[c])

\* pull(), lines 202-206, one turn of the loop, and what the resumed parent p
\* does first: await_resume() of its awaitable.  No body has a handler: the
\* exception
\* leaves p's body (unhandled_exception, final_suspend); otherwise p goes on.
\* Either way the nested generator object is destroyed.
PullAscends(f) ==
    /\ Returns(f)
    /\ ~InFirstResume(fr, f)
    /\ KindOf(fr[f]) = "recursive_generator"
    /\ pull_loop_condition(fr, PullRoot(fr))
    /\ LET r == PullRoot(fr)
           F1 == pull_ascend(fr, r)
           p == F1[r].m_parentOrLeaf
           c == F1[p].child
       IN  IF F1[p].status # "nest" \/ c = nullptr
           THEN /\ proc' = "undefined"
                /\ fr' = F1
                /\ cons' = cons
           ELSE /\ proc' = proc
                /\ \E o \in yield_awaitable_await_resume(F1, c) :
                    LET F2 == [destroy([F1 EXCEPT ![c] = o.p], c)
                                EXCEPT ![p].child = nullptr]
                    IN  IF o.raised = nullptr
                        THEN /\ fr' = [F2 EXCEPT ![p].status = "run"]
                             /\ cons' = [cons EXCEPT !.ret = nullptr]
                        ELSE /\ fr' = [F2 EXCEPT ![p] =
                                        [exception_promise_unhandled_exception(
                                            @, o.raised)
                                         EXCEPT !.status = "final",
                                                !.outcome = "exception"]]
                             /\ cons' = [cons EXCEPT !.ret = p]
    /\ UNCHANGED <<inst, wr, obs>>

\* ------------------------------------------------------------------- fmap
\* The body of fmap, resumed: for (auto&& value : source) calls
\* source.begin() the first time and ++it afterwards; both resume the source.
\* begin() of a null source gives the end iterator and the body returns.
IFmapPull(m) ==
    /\ Running
    /\ cons.pc = "pull"
    /\ fr[m].status = "run"
    /\ fr[m].body = "fmap"
    /\ LET s == fr[m].child
       IN  IF s = nullptr
           THEN /\ fr' = [fr EXCEPT ![m].ran = TRUE, ![m].status = "final",
                                    ![m].outcome = "value"]
                /\ cons' = [cons EXCEPT !.ret = m, !.src = "end"]
                /\ proc' = proc
           ELSE IF ~CanPull(fr, s)
           THEN /\ proc' = "undefined"
                /\ UNCHANGED <<fr, cons>>
           ELSE /\ fr' = [StartPull(fr, s) EXCEPT ![m].ran = TRUE,
                                                  ![m].status = "call"]
                /\ cons' = [cons EXCEPT
                              !.pulls = IF m = cons.target THEN @ + 1 ELSE @]
                /\ proc' = proc
    /\ UNCHANGED <<inst, wr, obs>>

\* ------------------------------------------------- begin() / operator++ return
\* a begin() / operator++ of generator without rethrow_if_exception()
generator_pull_outcomes_no_rethrow(F, r, fl) ==
    {[tag |-> IF done(F[r]) THEN "end" ELSE "value",
      v |-> IF done(F[r]) THEN 0 ELSE generator_value(F, r),
      it |-> r, p |-> F[r]]}

\* What begin() / operator++ on root r do once the resume (generator) or
\* pull() (recursive_generator) has returned: [tag, v: the element the
\* iterator refers to or the exception raised, it: the iterator, p: the root
\* promise after].  generator.hpp:121-126, 190-196: rethrow_if_exception()
\* if done(); an exception leaves begin() before the iterator is made.
generator_pull_outcomes(F, r, fl) ==
    IF ~done(F[r])
    THEN {[tag |-> "value", v |-> generator_value(F, r), it |-> r, p |-> F[r]]}
    ELSE {IF o.raised # nullptr
          THEN [tag |-> "raise", v |-> o.raised,
                it |-> IF fl = "begin" THEN nullptr ELSE r, p |-> o.p]
          ELSE [tag |-> "end", v |-> 0, it |-> r, p |-> o.p] :
            o \in rethrow_if_exception(PromiseInst(F[r]), F[r])}

\* an operator++ that keeps m_promise when the root is complete
recursive_generator_pull_outcomes_keeps_iterator(F, r) ==
    IF ~done(F[r])
    THEN {[tag |-> "value", v |-> recursive_generator_value(F, r), it |-> r,
           p |-> F[r]]}
    ELSE {[tag |-> IF o.raised # nullptr THEN "raise" ELSE "end",
           v |-> IF o.raised # nullptr THEN o.raised ELSE 0,
           it |-> r, p |-> o.p] :
            o \in rethrow_if_exception(PromiseInst(F[r]), F[r])}

\* exception_promise.hpp:302-308, 339-346: when the root is complete the
\* iterator becomes the end iterator, then rethrow_if_exception()
recursive_generator_pull_outcomes(F, r) ==
    IF ~done(F[r])
    THEN {[tag |-> "value", v |-> recursive_generator_value(F, r), it |-> r,
           p |-> F[r]]}
    ELSE {[tag |-> IF o.raised # nullptr THEN "raise" ELSE "end",
           v |-> IF o.raised # nullptr THEN o.raised ELSE 0,
           it |-> nullptr, p |-> o.p] :
            o \in rethrow_if_exception(PromiseInst(F[r]), F[r])}

pull_outcomes(F, r, fl) ==
    IF KindOf(F[r]) = "recursive_generator"
    THEN recursive_generator_pull_outcomes(F, r)
    ELSE generator_pull_outcomes(F, r, fl)

\* the resume / the pull loop of the innermost begin() / operator++ is over
PullOver(f) ==
    /\ Returns(f)
    /\ ~InFirstResume(fr, f)
    /\ KindOf(fr[PullRoot(fr)]) = "recursive_generator"
        => ~pull_loop_condition(fr, PullRoot(fr))

\* begin() / operator++ returns to the consumer
PullReturns(f) ==
    /\ PullOver(f)
    /\ FmapCallers(fr) = {}
    /\ LET r == cons.target
       IN  \E o \in pull_outcomes(fr, r, cons.fl) :
            /\ fr' = [fr EXCEPT ![r] =
                        [o.p EXCEPT !.last = IF o.tag = "value" THEN o.v ELSE @]]
            /\ obs' = [op |-> cons.fl, h |-> r, fl |-> "none",
                       tag |-> o.tag, v |-> o.v]
            /\ cons' = [cons EXCEPT !.pc = "idle", !.m_coroutine = o.it]
    /\ UNCHANGED <<inst, wr, proc>>

\* a body that yields the value of the source as it is
fmap_body_forwards(p, o) ==
    CASE o.tag = "value" ->
            [p EXCEPT !.pos = @ + 1, !.m_value = o.v, !.status = "yield"]
      [] o.tag = "end" ->
            [p EXCEPT !.status = "final", !.outcome = "value"]
      [] OTHER ->
            [exception_promise_unhandled_exception(p, o.v)
                EXCEPT !.status = "final", !.outcome = "exception"]

\* source.begin() / ++it returns to the body of fmap frame m: the body
\* yields func(value), or returns at the end of the source, or the exception
\* escapes it (unhandled_exception of generator_promise<R, false>)
fmap_body(p, o) ==
    CASE o.tag = "value" ->
            [p EXCEPT !.pos = @ + 1, !.m_value = func(o.v), !.status = "yield"]
      [] o.tag = "end" ->
            [p EXCEPT !.status = "final", !.outcome = "value"]
      [] OTHER ->
            [exception_promise_unhandled_exception(p, o.v)
                EXCEPT !.status = "final", !.outcome = "exception"]

PullReturnsToFmap(f) ==
    /\ PullOver(f)
    /\ FmapCallers(fr) # {}
    /\ LET r == PullRoot(fr)
           m == CHOOSE x \in FmapCallers(fr) : fr[x].child = r
       IN  \E o \in pull_outcomes(fr, r, IF fr[m].pos = 0 THEN "begin"
                                          ELSE "increment") :
            /\ fr' = [fr EXCEPT ![r] = o.p, ![m] = fmap_body(@, o)]
            /\ cons' = [cons EXCEPT
                          !.ret = m,
                          !.yields = IF o.tag = "value" /\ m = cons.target
                                     THEN 1 ELSE @,
                          !.src = o.tag, !.srcv = o.v]
    /\ UNCHANGED <<inst, wr, obs, proc>>

\* the consumer takes the result of the operation that has just returned,
\* and the history of the pull is forgotten
IContinue ==
    /\ proc = "running"
    /\ obs # NoObs
    /\ obs' = NoObs
    /\ cons' = [IterIdle EXCEPT !.m_coroutine = cons.m_coroutine]
    /\ UNCHANGED <<inst, wr, fr, proc>>

\* ------------------------------------------------------------ specification
IterInit ==
    /\ inst \in Instances
    /\ wr = [w \in Wrappers |-> DeadWrapper]
    /\ fr = [f \in IterFrames |-> NoFrame]
    /\ cons = IterIdle
    /\ obs = NoObs
    /\ proc = "running"

IterNext ==
    \/ \E w \in Wrappers : ICall(w)
    \/ \E w, src \in Wrappers : IFmap(w, src)
    \/ \E w \in Wrappers : IDestruct(w)
    \/ \E w \in Wrappers : IBegin(w)
    \/ IIncrement
    \/ IEqualsEnd
    \/ IDeref
    \/ \E f \in IterFrames : IYieldValue(f)
    \/ \E f \in IterFrames : IYieldNested(f)
    \/ \E f \in IterFrames : IYieldNull(f)
    \/ \E f \in IterFrames : IReturn(f)
    \/ \E f \in IterFrames : IThrow(f)
    \/ \E f \in IterFrames : YieldValueReturns(f)
    \/ \E f \in IterFrames : PullAscends(f)
    \/ \E m \in IterFrames : IFmapPull(m)
    \/ \E f \in IterFrames : PullReturns(f)
    \/ \E f \in IterFrames : PullReturnsToFmap(f)
    \/ IContinue

IterSpec == IterInit /\ [][IterNext]_vars

\* The iteration of a range-based for loop, for (auto&& v : w): the
\* generator object w is made by a call, begin() is called once,
\* on a generator that has not been started, and the loop reads and
\* increments the iterator; w outlives the loop.
LoopBegin(w) ==
    /\ wr[w].alive
    /\ wr[w].m_coroutine # nullptr => ~fr[wr[w].m_coroutine].consumed
    /\ IBegin(w)

LoopNext ==
    \/ \E w \in Wrappers : ICall(w)
    \/ \E w \in Wrappers : LoopBegin(w)
    \/ IIncrement
    \/ IDeref
    \/ \E f \in IterFrames : IYieldValue(f)
    \/ \E f \in IterFrames : IYieldNested(f)
    \/ \E f \in IterFrames : IYieldNull(f)
    \/ \E f \in IterFrames : IReturn(f)
    \/ \E f \in IterFrames : IThrow(f)
    \/ \E f \in IterFrames : YieldValueReturns(f)
    \/ \E f \in IterFrames : PullAscends(f)
    \/ \E f \in IterFrames : PullReturns(f)
    \/ IContinue

\* the steps inside begin() / operator++
PullStep ==
    \E f \in IterFrames :
        \/ IYieldValue(f) \/ IYieldNested(f) \/ IYieldNull(f)
        \/ IReturn(f) \/ IThrow(f)
        \/ YieldValueReturns(f) \/ PullAscends(f) \/ PullReturns(f)

\* One thread executes the loop.  A call of resume(), of pull(), of begin()
\* or of operator++ that has started goes on until it returns, which is weak
\* fairness of the steps inside a pull; the caller of an operation goes on
\* after it; and the loop increments its iterator again and again, between
\* the reads of it, as long as it is not equal to end(), which is strong
\* fairness of the increment.
LoopSpec ==
    /\ IterInit
    /\ [][LoopNext]_vars
    /\ WF_vars(PullStep)
    /\ WF_vars(IContinue)
    /\ SF_vars(IIncrement)

\* ------------------------------------- task: the symmetric-transfer protocol
\* The build with CPPCORO_COMPILER_SUPPORTS_SYMMETRIC_TRANSFER: the promise
\* has no m_state, await_suspend and final_awaitable::await_suspend return
\* the handle of the coroutine that runs next.  A behaviour of SymSpec is one
\* thread and a chain of coroutines: the awaiting computation at the head
\* (handle Driver, some coroutine that a plain resume() call starts) awaits
\* task 1, whose body may await task 2, and so on.  cons is the thread:
\* cur is the coroutine that is executing, pc = "transfer" says that an
\* await_suspend has returned the handle next and the coroutine machinery is
\* about to resume it, depth is the number of resume() calls on the stack
\* and transfers counts the handles resumed this way.
SymTasks == 1..MaxChain
Driver == MaxChain + 1
SymFrames == 1..(MaxChain + 1)

SymIdle ==
    [pc |-> "idle", cur |-> nullptr, next |-> nullptr, depth |-> 0,
     transfers |-> 0]

\* the promise of a task coroutine that has just been called:
\* std::experimental::coroutine_handle<> m_continuation is a null handle
SymFrame(f) ==
    [NewFrame(inst, f) EXCEPT !.body = "user", !.m_continuation = nullptr]

DriverFrame ==
    [NoFrame EXCEPT !.status = "init", !.body = "driver",
                    !.m_continuation = nullptr]

\* the task the body of a awaits
Callee(a) == IF a = Driver THEN 1 ELSE a + 1

\* coroutine a is executing its body on the thread
Executes(a) ==
    /\ Running
    /\ cons.pc = "idle"
    /\ cons.cur = a
    /\ fr[a].status = "run"

\* a set_continuation that forgets the handle
set_continuation_skips(p, continuation) == p

\* void task_promise_base::set_continuation(coroutine_handle<> continuation)
set_continuation(p, continuation) ==
    [p EXCEPT !.m_continuation = continuation]

\* awaitable_base::await_suspend, symmetric: it registers the continuation
\* and returns m_coroutine; a coroutine_handle-returning await_suspend is a
\* tail call, the resume() of the returned handle replaces the caller on the
\* stack
awaitable_base_await_suspend(F, a, c) ==
    [next |-> c, F |-> [F EXCEPT ![c] = set_continuation(@, a)]]

\* final_awaitable::await_suspend, symmetric: return coro.promise().m_continuation
final_awaitable_await_suspend_symmetric(p) == p.m_continuation

\* someone calls resume() on the awaiting computation at the head
SResume ==
    /\ Running
    /\ cons.pc = "idle"
    /\ cons.cur = nullptr
    /\ fr[Driver].status = "init"
    /\ fr' = [fr EXCEPT ![Driver].status = "run", ![Driver].consumed = TRUE]
    /\ cons' = [cons EXCEPT !.cur = Driver, !.depth = @ + 1]
    /\ UNCHANGED <<inst, wr, obs, proc>>

\* task<T> t = next(...);  in the body of a: the coroutine is created and
\* stops at initial_suspend; the task object lives in the frame of a
SCall(a) ==
    /\ Executes(a)
    /\ fr[a].child = nullptr
    /\ Callee(a) \in SymTasks
    /\ fr[Callee(a)].status = "unalloc"
    /\ fr' = [fr EXCEPT ![Callee(a)] = SymFrame(Callee(a)),
                        ![a].child = Callee(a), ![a].ran = TRUE]
    /\ UNCHANGED <<inst, wr, cons, obs, proc>>

\* co_await t;  in the body of a: await_ready(), and if it is false a
\* suspends and await_suspend(a) runs
SAwaitSuspend(a) ==
    /\ Executes(a)
    /\ fr[a].child # nullptr
    /\ LET c == fr[a].child
       IN  IF await_ready(c)
           THEN /\ fr' = [fr EXCEPT ![a].status = "resumed", ![a].ran = TRUE]
                /\ cons' = cons
           ELSE LET r == awaitable_base_await_suspend(fr, a, c)
                IN  /\ fr' = [r.F EXCEPT ![a].status = "await", ![a].ran = TRUE]
                    /\ cons' = [cons EXCEPT !.pc = "transfer", !.cur = nullptr,
                                            !.next = r.next]
    /\ UNCHANGED <<inst, wr, obs, proc>>

\* the handle an await_suspend returned is resumed: a task that has not
\* started begins its body, an awaiting coroutine goes on to its
\* await_resume().  resume() of a null handle, or of a coroutine that is not
\* suspended, is undefined.
STransfer ==
    /\ Running
    /\ cons.pc = "transfer"
    /\ LET t == cons.next
       IN  IF t = nullptr \/ fr[t].status \notin {"init", "await"}
           THEN /\ proc' = "undefined"
                /\ UNCHANGED <<fr, cons>>
           ELSE /\ proc' = proc
                /\ fr' = [fr EXCEPT ![t].status = IF @ = "init" THEN "run"
                                                  ELSE "resumed",
                                    ![t].consumed = TRUE,
                                    ![t].resumes = @ + 1]
                /\ cons' = [cons EXCEPT !.pc = "idle", !.cur = t,
                                        !.next = nullptr,
                                        !.transfers = @ + 1]
    /\ UNCHANGED <<inst, wr, obs>>

\* a task body executes a statement, or awaits an external event: it
\* suspends and the resume() call that is on the stack returns
SBodyStep(f, how) ==
    /\ Executes(f)
    /\ fr[f].body = "user"
    /\ fr[f].pos < MaxYield
    /\ IF how = "await"
       THEN /\ fr' = [fr EXCEPT ![f].pos = @ + 1, ![f].ran = TRUE,
                                ![f].status = "wait"]
            /\ cons' = [cons EXCEPT !.cur = nullptr, !.depth = @ - 1]
       ELSE /\ fr' = [fr EXCEPT ![f].pos = @ + 1, ![f].ran = TRUE]
            /\ cons' = cons
    /\ UNCHANGED <<inst, wr, obs, proc>>

\* the external event completes and its source calls resume() on the task
SExternalResume(f) ==
    /\ Running
    /\ cons.pc = "idle"
    /\ cons.cur = nullptr
    /\ fr[f].status = "wait"
    /\ fr' = [fr EXCEPT ![f].status = "run"]
    /\ cons' = [cons EXCEPT !.cur = f, !.depth = @ + 1]
    /\ UNCHANGED <<inst, wr, obs, proc>>

\* the body of coroutine f has ended with the promise p: the task objects
\* that live in the frame are destroyed, the coroutine suspends at
\* final_suspend() and final_awaitable::await_suspend returns the handle to
\* resume
FinalSuspend(f, p) ==
    LET q == [p EXCEPT !.status = "final", !.ran = TRUE, !.child = nullptr,
                       !.continues = @ + 1]
        F == IF fr[f].child = nullptr THEN fr ELSE destroy(fr, fr[f].child)
    IN  /\ fr' = [F EXCEPT ![f] = q]
        /\ cons' = [cons EXCEPT !.pc = "transfer", !.cur = nullptr,
                                !.next = final_awaitable_await_suspend_symmetric(q)]

\* co_return Val(f, 0);
SReturn(f) ==
    /\ Executes(f)
    /\ fr[f].body = "user"
    /\ FinalSuspend(f, [return_value(inst, fr[f], Val(f, 0))
                            EXCEPT !.outcome = "value"])
    /\ UNCHANGED <<inst, wr, obs, proc>>

\* an exception escapes the body
SThrow(f) ==
    /\ Executes(f)
    /\ fr[f].body = "user"
    /\ IF unhandled_exception_terminates(inst)
       THEN /\ proc' = "terminated"
            /\ fr' = [fr EXCEPT ![f].ran = TRUE]
            /\ cons' = cons
       ELSE /\ proc' = proc
            /\ FinalSuspend(f, [unhandled_exception(inst, fr[f], Exc(f))
                                    EXCEPT !.outcome = "exception"])
    /\ UNCHANGED <<inst, wr, obs>>

\* a task body is resumed at its co_await: await_resume() returns the result
\* of the awaited task or rethrows its exception, and the task object is
\* destroyed at the end of the statement.  No body has a handler: the
\* exception escapes the body of a.
SAwaitResume(a) ==
    /\ Running
    /\ cons.pc = "idle"
    /\ cons.cur = a
    /\ fr[a].status = "resumed"
    /\ fr[a].body = "user"
    /\ \E o \in co_await_await_resume(fr[a].child) :
        LET F == [fr EXCEPT ![fr[a].child] = o.p]
        IN  CASE o.tag \in {"undefined", "terminate"} ->
                    /\ proc' = IF o.tag = "undefined" THEN "undefined"
                               ELSE "terminated"
                    /\ UNCHANGED <<fr, cons>>
              [] o.tag = "raise" /\ unhandled_exception_terminates(inst) ->
                    /\ proc' = "terminated"
                    /\ UNCHANGED <<fr, cons>>
              [] o.tag = "raise" /\ ~unhandled_exception_terminates(inst) ->
                    /\ proc' = proc
                    /\ LET G == destroy(F, fr[a].child)
                           q == [unhandled_exception(inst, G[a], o.v)
                                    EXCEPT !.status = "final",
                                           !.outcome = "exception",
                                           !.child = nullptr,
                                           !.continues = @ + 1]
                       IN  /\ fr' = [G EXCEPT ![a] = q]
                           /\ cons' = [cons EXCEPT
                                !.pc = "transfer", !.cur = nullptr,
                                !.next = final_awaitable_await_suspend_symmetric(q)]
              [] OTHER ->
                    /\ proc' = proc
                    /\ fr' = [destroy(F, fr[a].child) EXCEPT
                                ![a].status = "run", ![a].child = nullptr,
                                ![a].last = o.v]
                    /\ cons' = cons
    /\ UNCHANGED <<inst, wr, obs>>

\* the awaiting computation at the head is resumed at its co_await: it takes
\* the result, its body ends and the resume() call that is on the stack
\* returns
SDriverAwaitResume ==
    /\ Running
    /\ cons.pc = "idle"
    /\ cons.cur = Driver
    /\ fr[Driver].status = "resumed"
    /\ \E o \in co_await_await_resume(fr[Driver].child) :
        /\ obs' = [op |-> "await_resume", h |-> fr[Driver].child,
                   fl |-> "co_await", tag |-> o.tag, v |-> o.v]
        /\ fr' = [destroy([fr EXCEPT ![fr[Driver].child] = o.p],
                          fr[Driver].child)
                    EXCEPT ![Driver].status = "final", ![Driver].child = nullptr]
        /\ proc' = CASE o.tag = "terminate" -> "terminated"
                     [] o.tag = "undefined" -> "undefined"
                     [] OTHER -> proc
    /\ cons' = [cons EXCEPT !.cur = nullptr, !.depth = @ - 1]
    /\ UNCHANGED <<inst, wr>>

SymInit ==
    /\ inst \in {i \in Instances : i.kind = "task"}
    /\ wr = [w \in Wrappers |-> DeadWrapper]
    /\ fr = [f \in SymFrames |-> IF f = Driver THEN DriverFrame ELSE NoFrame]
    /\ cons = SymIdle
    /\ obs = NoObs
    /\ proc = "running"

SymNext ==
    \/ SResume
    \/ \E a \in SymFrames : SCall(a)
    \/ \E a \in SymFrames : SAwaitSuspend(a)
    \/ STransfer
    \/ \E f \in SymTasks, how \in {"step", "await"} : SBodyStep(f, how)
    \/ \E f \in SymTasks : SExternalResume(f)
    \/ \E f \in SymTasks : SReturn(f)
    \/ \E f \in SymTasks : SThrow(f)
    \/ \E a \in SymTasks : SAwaitResume(a)
    \/ SDriverAwaitResume

SymSpec == SymInit /\ [][SymNext]_vars

\* ------------------------------------------------------------------ claims
\* the frames that are part of the chain of recursive_generator root h, found
\* through the m_root pointers
ChainOf(F, h) == {f \in IterFrames : Live(F[f]) /\ F[f].m_root = h}

\* C11: destroying a task, generator or recursive_generator wrapper whose
\* coroutine is not complete (never started, or suspended at a yield) releases
\* the coroutine without resuming it: the frame is destroyed where it stands,
\* no body runs and no value is produced in the step, every nested coroutine
\* still on the chain of a recursive_generator root is destroyed with it, no
\* other frame is touched, and a destroyed frame never runs again.
C11_DestroyWithoutResume ==
    [][/\ (obs.op = "none" /\ obs'.op = "dtor" /\ obs'.h # nullptr
            /\ ~done(fr[obs'.h]))
          => /\ Suspended(fr[obs'.h])
             /\ \A f \in Held(fr, obs'.h) \cup ChainOf(fr, obs'.h) :
                    /\ Suspended(fr[f])
                    /\ fr'[f].status = "destroyed"
             /\ \A f \in IterFrames \ Held(fr, obs'.h) : fr'[f] = fr[f]
             /\ \A f \in IterFrames : fr'[f].status \notin {"run", "call"}
             /\ obs'.tag = "none"
             /\ cons'.pc = "idle"
       /\ \A f \in IterFrames :
            fr[f].status = "destroyed" => fr'[f].status = "destroyed"
      ]_vars

\* a recursive_generator root suspended with two nested generators on its
\* chain has been destroyed: three frames were released
C11_Witness ==
    /\ inst.kind = "recursive_generator"
    /\ obs.op = "dtor"
    /\ obs.v = 3
    /\ \A f \in IterFrames : fr[f].status = "destroyed"

\* a step in which begin() / operator++ returns to the consumer
PullReturnStep == cons.pc = "pull" /\ cons'.pc = "idle"

\* the root the returning pull was on is a generator / recursive_generator
\* made by a user coroutine function of kind k
OnUser(k) ==
    /\ inst.kind = k
    /\ fr[cons.target].body = "user"

\* C12: a generator whose body yields v1..vn and returns: every begin() /
\* operator++ that returns a value has run exactly one co_yield and delivers
\* the element that follows the one delivered before (vk at the k-th step),
\* which is what operator* then reads; the step that finds the body returned
\* delivers nothing after all n elements were delivered; and it == end()
\* answers true exactly when the generator is null or its body has run to
\* completion.
C12_GeneratorSequence ==
    [][/\ (PullReturnStep /\ OnUser("generator") /\ obs'.tag = "value")
          => /\ cons.yields = 1
             /\ \E k \in 1..MaxItems :
                    /\ fr[cons.target].last = ItemVal(<<k - 1>>)
                    /\ obs'.v = ItemVal(<<k>>)
             /\ value(fr', cons.target) = obs'.v
             /\ cons'.m_coroutine = cons.target
             /\ ~iterator_equals_end(fr', cons'.m_coroutine)
       /\ (PullReturnStep /\ OnUser("generator") /\ obs'.tag = "end")
          => /\ cons.yields = 0
             /\ fr'[cons.target].outcome = "value"
             /\ fr'[cons.target].last = ItemVal(<<fr'[cons.target].pos>>)
             /\ iterator_equals_end(fr', cons'.m_coroutine)
       /\ (inst.kind = "generator" /\ obs'.op = "equals_end")
          => (obs'.tag = BoolTag(TRUE)
                <=> (obs'.h = nullptr \/ fr'[obs'.h].outcome # "none"))
      ]_vars

\* a generator body yielded MaxItems values and returned: the increment after
\* the last element found the end
C12_Witness ==
    /\ inst.kind = "generator"
    /\ obs.op = "increment"
    /\ obs.tag = "end"
    /\ fr[obs.h].body = "user"
    /\ fr[obs.h].pos = MaxItems
    /\ fr[obs.h].last = ItemVal(<<MaxItems>>)

\* C13: begin() starts the coroutine only when it has not been started: a
\* begin() on a generator that is suspended at a yield or complete does not
\* resume it, and leaves the current element and the position unchanged.
C13_BeginOnlyStarts ==
    [][(obs.op = "none" /\ obs'.op = "begin" /\ obs'.h # nullptr
            /\ fr[obs'.h].status # "init")
        => /\ proc' = "running"
           /\ fr'[obs'.h].status = fr[obs'.h].status
           /\ fr'[obs'.h].pos = fr[obs'.h].pos
           /\ fr'[obs'.h].m_value = fr[obs'.h].m_value
      ]_vars

\* C14: a fallible generator whose body yields v1..vk and then fails: the
\* failure is raised by the begin() / operator++ in which the body fails, and
\* by no other step (not by the call of the coroutine function); that step
\* comes after all k elements were delivered and delivers none; after it the
\* coroutine is complete, the iterator compares equal to the end sentinel, and
\* the body yields nothing more.
C14_GeneratorFailure ==
    [][/\ (PullReturnStep /\ OnUser("generator") /\ cons.thrown # nullptr)
          => /\ obs'.tag = "raise"
             /\ obs'.v = Exc(cons.target)
             /\ cons.yields = 0
             /\ fr'[cons.target].last = ItemVal(<<fr'[cons.target].pos>>)
             /\ fr'[cons.target].outcome = "exception"
             /\ iterator_equals_end(fr', cons.target)
             /\ iterator_equals_end(fr', cons'.m_coroutine)
       /\ (inst.kind = "generator" /\ obs'.tag = "raise" /\ obs.tag # "raise")
          => /\ PullReturnStep
             /\ ~inst.noexc
             /\ cons.thrown # nullptr
       /\ \A f \in IterFrames :
            (inst.kind = "generator" /\ fr[f].outcome = "exception"
                /\ Live(fr'[f]))
            => /\ fr'[f].pos = fr[f].pos
               /\ fr'[f].last = fr[f].last
               /\ done(fr'[f])
      ]_vars

\* a fallible generator body yielded one value and then failed: the
\* increment after that element raised the failure
C14_Witness ==
    /\ inst.kind = "generator"
    /\ obs.op = "increment"
    /\ obs.tag = "raise"
    /\ fr[obs.h].body = "user"
    /\ obs.v = Exc(obs.h)
    /\ fr[obs.h].pos = 1
    /\ fr[obs.h].last = ItemVal(<<1>>)

\* C15: a tree of recursive_generator bodies is flattened depth-first and in
\* order.  Every begin() / operator++ that returns a value has run exactly
\* one co_yield of a value, delivers the value of the body suspended at that
\* co_yield, and that value comes after the one delivered before in the
\* depth-first, in-order walk (ItemVal); a step that returns no value has run
\* none.  No nested sequence is left before its body is complete, and
\* when the root is complete nothing of the tree is left.  The iterator is
\* the end iterator exactly when the root body has run to completion.
C15_Flattening ==
    [][/\ (PullReturnStep /\ OnUser("recursive_generator"))
          => /\ cons.yields = (IF obs'.tag = "value" THEN 1 ELSE 0)
             /\ obs'.tag = "value"
                => /\ \E f \in IterFrames :
                        /\ fr[f].status = "yield"
                        /\ fr[f].m_value = ItemVal(Append(fr[f].path, fr[f].pos))
                        /\ obs'.v = fr[f].m_value
                   /\ obs'.v > fr[cons.target].last
                   /\ value(fr', cons.target) = obs'.v
             /\ obs'.tag = "end"
                => \A f \in IterFrames \ {cons.target} : ~Live(fr'[f])
             /\ recursive_generator_iterator_equals_end(fr', cons'.m_coroutine)
                <=> fr'[cons.target].outcome # "none"
       /\ \A f \in IterFrames :
            (inst.kind = "recursive_generator" /\ cons.pc = "pull"
                /\ Live(fr[f]) /\ ~Live(fr'[f]))
            => fr[f].outcome # "none"
      ]_vars

\* the element at place <<2, 1, 1>> of the tree, yielded by a body at depth 3,
\* has been delivered by an increment
C15_Witness ==
    /\ inst.kind = "recursive_generator"
    /\ obs.op = "increment"
    /\ obs.tag = "value"
    /\ fr[obs.h].body = "user"
    /\ obs.v = ItemVal(<<2, 1, 1>>)

\* C16: in a fallible recursive_generator chain without handlers, a body at
\* depth 3 that fails after it was suspended at a co_yield (the failure comes
\* in a body resumed by pull()): the operator++ in which it fails (or the
\* begin(), when the consumer calls begin() again) raises that failure at the
\* consumer and delivers no element; after it the iterator is
\* the end iterator, the root is complete, and nothing of the chain is left
\* that could produce an element.
C16_DeepFailure ==
    [][(PullReturnStep /\ OnUser("recursive_generator")
            /\ cons.thrown # nullptr /\ cons.depth = 3 /\ ~cons.first)
        => /\ obs'.op = cons.fl
           /\ obs'.tag = "raise"
           /\ obs'.v = cons.thrown
           /\ cons.yields = 0
           /\ recursive_generator_iterator_equals_end(fr', cons'.m_coroutine)
           /\ fr'[cons.target].outcome = "exception"
           /\ done(fr'[cons.target])
           /\ \A f \in IterFrames \ {cons.target} : ~Live(fr'[f])
      ]_vars

\* a body at depth 3 failed after an element of its own, and the increment
\* raised its exception
C16_Witness ==
    /\ inst.kind = "recursive_generator"
    /\ obs.op = "increment"
    /\ obs.tag = "raise"
    /\ cons.depth = 3
    /\ ~cons.first
    /\ obs.v = cons.thrown
    /\ fr[obs.h].last = ItemVal(<<1, 1, 1>>)

\* C17: a failure that escapes a body of a fallible recursive_generator chain
\* is never dropped: whatever the point of the body at which it is raised,
\* the begin() / operator++ in which it is raised re-raises it at the
\* consumer.
C17_NeverDropped ==
    [][(PullReturnStep /\ OnUser("recursive_generator")
            /\ cons.thrown # nullptr)
        => /\ obs'.tag = "raise"
           /\ obs'.v = cons.thrown
      ]_vars

\* the resume() calls of recursive_generator promises that are active, each
\* nested in the one before: every body that is executing, or is inside the
\* resume() of its yield_value, was entered by one
ActiveResumes ==
    Cardinality({f \in IterFrames :
                    fr[f].body = "user" /\ fr[f].status \in {"run", "call"}})

\* C18: in every pull of a recursive_generator the number of resume() calls
\* active at the same time is bounded by a constant that does not depend on
\* the depth of the chain: never more than the resume() of pull() and the
\* resume() of one yield_value.
C18_BoundedResumes ==
    inst.kind = "recursive_generator" => ActiveResumes <= 2

\* C19: fmap(func, source) is a generator that gives func of each element of
\* the source, in order, and ends when the source ends.  The call of fmap
\* does not touch the source (it is lazy); every begin() / operator++ of the
\* result asks the source once and returns func(v) where the source gave v,
\* the end where the source gave the end, and raises the exception the source
\* raised; the result behaves as a generator (its iterator keeps the handle
\* and equals the sentinel exactly when the fmap body is complete).
C19_Fmap ==
    [][/\ (obs.op = "none" /\ obs'.op = "fmap")
          => /\ \A f \in IterFrames : fr[f].status # "unalloc" => fr'[f] = fr[f]
             /\ \E m \in IterFrames :
                    /\ fr[m].status = "unalloc"
                    /\ fr'[m].status = "init"
                    /\ fr'[m].child = obs'.h
             /\ obs'.tag = "none"
       /\ (PullReturnStep /\ fr[cons.target].body = "fmap")
          => /\ cons.pulls = (IF fr[cons.target].child = nullptr THEN 0 ELSE 1)
             /\ obs'.tag = cons.src
             /\ obs'.tag = "value"
                => /\ obs'.v = func(cons.srcv)
                   /\ obs'.v > fr[cons.target].last
                   /\ value(fr', cons.target) = obs'.v
                   /\ cons'.m_coroutine = cons.target
             /\ obs'.tag = "raise" => obs'.v = cons.srcv
             /\ obs'.tag \in {"end", "raise"}
                <=> generator_iterator_equals_end(fr', cons.target)
      ]_vars

\* the mapped sequence of a recursive_generator has delivered func of an
\* element yielded by a nested body
C19_Witness ==
    /\ inst.kind = "recursive_generator"
    /\ obs.op = "increment"
    /\ obs.tag = "value"
    /\ fr[obs.h].body = "fmap"
    /\ obs.v = func(ItemVal(<<2, 1>>))

\* C20: in no-fail mode (NoExcept = true) nothing is raised at a consumer.
\* No operation returns by raising and no promise stores an exception: the
\* process terminates in the step in which an exception escapes a body of a
\* task, generator or recursive_generator.  rethrow_if_exception() returns
\* without raising and without changing the promise, whatever the promise
\* holds.  await_resume() of co_await on an empty task terminates the
\* process.  The process terminates in no other way.
C20_NoFail ==
    [][inst.noexc
        => /\ obs'.tag # "raise"
           /\ \A f \in Frames :
                /\ fr'[f].m_exception = nullptr
                /\ fr'[f].m_resultType # "exception"
                /\ fr'[f].outcome # "exception"
                /\ rethrow_if_exception(inst, [fr'[f] EXCEPT !.m_exception = Exc(f)])
                    = {[raised |-> nullptr,
                        p |-> [fr'[f] EXCEPT !.m_exception = Exc(f)]]}
           /\ (obs'.op = "await_resume" /\ obs'.h = nullptr
                /\ obs'.fl # "when_ready")
              => /\ obs'.tag = "terminate"
                 /\ proc' = "terminated"
           /\ (proc = "running" /\ proc' = "terminated")
              => \/ obs'.op = "await_resume" /\ obs'.h = nullptr
                 \/ obs'.op = "begin" /\ obs'.tag = "terminate"
                        /\ fr'[obs'.h].ran /\ ~done(fr'[obs'.h])
                 \/ \E f \in Frames :
                        /\ fr[f].status = "run" /\ fr'[f].status = "run"
                        /\ fr'[f].outcome = "none"
      ]_vars

\* an exception escaped the body of a no-fail task: the process is
\* terminated inside the body, with nothing stored
C20_Witness ==
    /\ inst.noexc
    /\ inst.kind = "task"
    /\ proc = "terminated"
    /\ \E f \in Frames :
        /\ fr[f].status = "run"
        /\ fr[f].ran
        /\ fr[f].m_exception = nullptr
        /\ fr[f].m_resultType = "empty"

\* the recursive_generator roots a consumer (the program, or the body of
\* fmap) has started to iterate and that are suspended between two pulls
StartedRoots ==
    {r \in IterFrames :
        /\ inst.kind = "recursive_generator"
        /\ cons.pc = "idle"
        /\ fr[r].body = "user"
        /\ fr[r].path = <<>>
        /\ Live(fr[r])
        /\ fr[r].status # "init"}

\* C21: a pull of a recursive_generator root returns in one of two states:
\* the active leaf is suspended at a co_yield of a value (the element value()
\* reads is the one that co_yield yielded), or the root is complete.  In
\* particular the active leaf is never a completed node other than the root.
C21_PullReturnsAtYieldOrEnd ==
    \A r \in StartedRoots :
        LET leaf == fr[r].m_parentOrLeaf
        IN  \/ /\ done(fr[r])
               /\ leaf = r
            \/ /\ ~done(fr[r])
               /\ Live(fr[leaf])
               /\ fr[leaf].status = "yield"
               /\ fr[leaf].m_value = ItemVal(Append(fr[leaf].path, fr[leaf].pos))
               /\ value(fr, r) = fr[leaf].m_value

\* a pull has ascended through two nested bodies that completed back-to-back
\* and returned with the root complete
C21_Witness ==
    /\ inst.kind = "recursive_generator"
    /\ obs.op = "increment"
    /\ obs.tag = "end"
    /\ obs.h \in StartedRoots
    /\ fr[obs.h].last = ItemVal(<<1, 1, 1>>)
    /\ \A f \in IterFrames \ {obs.h} : fr[f].status = "destroyed"

\* the live recursive_generator roots between two pulls, started or not
IdleRoots ==
    {r \in IterFrames :
        /\ inst.kind = "recursive_generator"
        /\ cons.pc = "idle"
        /\ fr[r].body = "user"
        /\ fr[r].path = <<>>
        /\ Live(fr[r])}

\* the promise reached from the leaf of r by following n parent links
Up(r, n) ==
    LET U[k \in 0..MaxChain] ==
            IF k = 0 THEN fr[r].m_parentOrLeaf
            ELSE IF U[k - 1] = r THEN r
            ELSE fr[U[k - 1]].m_parentOrLeaf
    IN  U[n]

\* the nesting depth of r: the number of co_yield g(...) statements that
\* are waiting for the sequence they yielded
Depth(r) ==
    Cardinality({f \in IterFrames : /\ Live(fr[f])
                                    /\ fr[f].body = "user"
                                    /\ fr[f].status = "nest"})

\* the source iterators that are not equal to end(): the one of the program
\* and the one inside a body of fmap that is suspended at its co_yield
OpenIterators ==
    {r \in IterFrames :
        /\ inst.kind = "recursive_generator"
        /\ cons.pc = "idle"
        /\ fr[r].body = "user"
        /\ \/ cons.m_coroutine = r
           \/ \E m \in IterFrames : /\ fr[m].body = "fmap"
                                    /\ fr[m].status = "yield"
                                    /\ fr[m].child = r}

\* C22: between two pulls the chain of a recursive_generator is well formed.
\* The root's m_parentOrLeaf is its leaf; the parent links lead from the leaf
\* to the root in exactly as many steps as the nesting depth, without
\* visiting a promise twice; every promise on the way has m_root = root;
\* every promise on the way except the leaf is suspended at the co_yield of
\* a nested sequence and is not complete; and on an iterator that is not
\* equal to end() the assertions of pull(), value() and operator++ hold:
\* the promise is a live root, the root and the leaf are not complete, and
\* the leaf can be resumed.
C22_ChainWellFormed ==
    /\ \A r \in IdleRoots :
          LET d == Depth(r)
          IN  /\ Live(fr[Up(r, 0)])
              /\ Up(r, d) = r
              /\ \A n \in 0..d :
                    /\ Live(fr[Up(r, n)])
                    /\ fr[Up(r, n)].m_root = r
                    /\ Len(fr[Up(r, n)].path) = d - n
                    /\ n < d => Up(r, n) # r
                    /\ n > 0 => /\ fr[Up(r, n)].status = "nest"
                                /\ ~done(fr[Up(r, n)])
                                /\ fr[Up(r, n)].child = Up(r, n - 1)
    /\ \A r \in OpenIterators :
          /\ Live(fr[r])
          /\ fr[r].m_root = r
          /\ ~done(fr[r])
          /\ ~done(fr[fr[r].m_parentOrLeaf])
          /\ CanPull(fr, r)

\* the iterator is at an element of a grandchild of the root
C22_Witness ==
    /\ cons.m_coroutine \in IdleRoots
    /\ cons.m_coroutine \in OpenIterators
    /\ Depth(cons.m_coroutine) = 2
    /\ obs.op = "increment"
    /\ obs.tag = "value"

\* C23: when the sequence a recursive_generator body yields completes inside
\* its first resume without a co_yield, and when the body yields a null
\* recursive_generator, the yielding body does not suspend: it is executing
\* after the co_yield, the leaf of its root is the yielding body, the pull
\* that resumed it is still in progress, and the consumer has observed
\* nothing: no result, no element, no additional pull.
C23_EmptyNested ==
    [][/\ \A p \in IterFrames :
            /\ inst.kind = "recursive_generator"
            /\ cons.pc = "pull"
            /\ fr[p].status = "call"
            /\ fr[p].body = "user"
            /\ cons.ret = fr[p].child
            /\ done(fr[fr[p].child])
            /\ fr' # fr
            => /\ fr'[p].status = "run"
               /\ fr'[p].pos = fr[p].pos
               /\ fr'[p].m_root = fr[p].m_root
               /\ fr'[fr[p].m_root].m_parentOrLeaf = p
               /\ fr'[fr[p].child].status = "destroyed"
               /\ fr'[p].m_exception = fr[p].m_exception
               /\ cons'.pc = "pull"
               /\ cons'.ret = nullptr
               /\ cons'.yields = cons.yields
               /\ cons'.pulls = cons.pulls
               /\ obs' = NoObs
               /\ proc' = proc
       /\ \A f \in IterFrames :
            /\ inst.kind = "recursive_generator"
            /\ fr[f].status = "run"
            /\ fr[f].body = "user"
            /\ fr'[f].status = "run"
            /\ fr'[f].pos = fr[f].pos + 1
            => /\ fr'[fr[f].m_root].m_parentOrLeaf = f
               /\ fr' = [fr EXCEPT ![f].pos = @ + 1, ![f].ran = TRUE]
               /\ cons' = cons
               /\ cons.pc = "pull"
               /\ obs' = NoObs
               /\ proc' = proc]_vars

\* inside its first pull the root has yielded a null generator and a nested
\* sequence that completed at once, and is executing after both
C23_Witness ==
    /\ inst.kind = "recursive_generator"
    /\ cons.pc = "pull"
    /\ cons.ret = nullptr
    /\ cons.yields = 0
    /\ \E r \in IterFrames :
        /\ fr[r].status = "run"
        /\ fr[r].body = "user"
        /\ fr[r].path = <<>>
        /\ fr[r].pos = 2
        /\ fr[r].last = 0
        /\ cons.fl = "begin"
        /\ fr[r].m_parentOrLeaf = r
        /\ Cardinality({c \in IterFrames : fr[c].status = "destroyed"}) = 1
        /\ \A c \in IterFrames \ {r} : fr[c].status \in {"destroyed", "unalloc"}

\* pull() is about to take a turn of its loop that moves the leaf from the
\* completed promise c to its parent p and resumes p
Ascent(p, c) ==
    /\ inst.kind = "recursive_generator"
    /\ cons.pc = "pull"
    /\ proc = "running"
    /\ cons.ret = c
    /\ fr[c].body = "user"
    /\ ~InFirstResume(fr, c)
    /\ pull_loop_condition(fr, PullRoot(fr))
    /\ fr[PullRoot(fr)].m_parentOrLeaf = c
    /\ fr[c].m_parentOrLeaf = p
    /\ fr[p].status = "nest"

\* begin() / operator++ of the recursive_generator the program iterates
\* raises an exception to the program
RaisedToConsumer ==
    /\ PullReturnStep
    /\ OnUser("recursive_generator")
    /\ obs'.tag = "raise"

\* C24 as stated: while pull() ascends through completed promises their
\* stored exception is not looked at, the promise that is resumed takes
\* nothing over from the completed one and goes on with its body; only the
\* completion check of begin() / operator++ raises, and at most once.
C24_NotInspectedInAscent ==
    [][/\ \A p, c \in IterFrames :
            Ascent(p, c) /\ fr' # fr
            => /\ fr'[p].m_exception = fr[p].m_exception
               /\ fr'[p].status = "run"
       /\ RaisedToConsumer
            => /\ done(fr[cons.target])
               /\ obs'.v = fr[cons.target].m_exception]_vars

\* C24, amended: when pull() resumes the parent of a completed promise, the
\* await_resume() of the parent's co_yield rethrows the exception the
\* completed promise has stored: the exception enters the body of the
\* parent, which (having no handler) completes with that exception stored in
\* its own promise, and the ascent goes on; a parent whose child completed
\* without an exception goes on with its body.  The program is raised an
\* exception only by the completion check of begin() / operator++, when the
\* root is complete, and it is the exception that was thrown in that same
\* pull: so at most once.
C24_InspectedInAscent ==
    [][/\ \A p, c \in IterFrames :
            Ascent(p, c) /\ fr' # fr
            => /\ fr'[c].status = "destroyed"
               /\ fr'[fr[p].m_root].m_parentOrLeaf = p
               /\ IF fr[c].m_exception # nullptr /\ ~inst.noexc
                  THEN /\ fr'[p].m_exception = fr[c].m_exception
                       /\ fr'[p].status = "final"
                       /\ fr'[p].outcome = "exception"
                       /\ cons'.ret = p
                  ELSE /\ fr'[p].m_exception = fr[p].m_exception
                       /\ fr'[p].status = "run"
               /\ obs' = NoObs
               /\ cons'.pc = "pull"
       /\ RaisedToConsumer
            => /\ done(fr[cons.target])
               /\ obs'.v = fr[cons.target].m_exception
               /\ cons.thrown = obs'.v
               /\ cons'.m_coroutine = nullptr]_vars

\* an exception thrown by a grandchild of the root after its first element
\* has been raised to the program by the increment in which it was thrown
C24_Witness ==
    /\ inst.kind = "recursive_generator"
    /\ cons.pc = "idle"
    /\ cons.target # nullptr
    /\ fr[cons.target].body = "user"
    /\ obs.op = "increment"
    /\ obs.tag = "raise"
    /\ cons.depth = 3
    /\ ~cons.first
    /\ obs.v = cons.thrown

\* the coroutines whose pending co_await is on task f
AwaitersOf(f) ==
    {a \in SymFrames : fr[a].child = f /\ fr[a].status \in {"await", "resumed"}}

\* task f completes in this step
Completes(f) == ~done(fr[f]) /\ Live(fr[f]) /\ done(fr'[f])

\* C25: in the symmetric-transfer task protocol the continuation is written
\* by set_continuation before the producer executes its first step: from the
\* moment its handle is about to be resumed, and as long as the task exists,
\* m_continuation is the one coroutine that awaits it, and that coroutine
\* stays suspended at its co_await until the task is complete.  When the
\* task reaches its final suspend point the handle returned is that
\* coroutine, which is resumed in the next step and once only.  Start and
\* completion are transfers: they never add a resume() call to the stack,
\* whose depth is at most 1 whatever the length of the chain, and no
\* undefined operation occurs.
C25_SymmetricTransfer ==
    /\ [](/\ proc # "undefined"
          /\ cons.depth \in {0, 1}
          /\ \A f \in SymTasks :
                /\ fr[f].status = "init" /\ ~(cons.pc = "transfer" /\ cons.next = f)
                    => /\ ~fr[f].ran
                       /\ fr[f].m_continuation = nullptr
                /\ Live(fr[f]) /\ (fr[f].status # "init"
                                    \/ (cons.pc = "transfer" /\ cons.next = f))
                    => /\ AwaitersOf(f) = {fr[f].m_continuation}
                       /\ ~done(fr[f])
                            => fr[fr[f].m_continuation].status = "await"
                       /\ fr[f].continues = IF done(fr[f]) THEN 1 ELSE 0
                       /\ fr[f].resumes <= 2)
    /\ [][/\ \A f \in SymTasks :
                Completes(f)
                => /\ cons'.pc = "transfer"
                   /\ cons'.next = fr[f].m_continuation
                   /\ fr'[cons'.next].status = "await"
                   /\ fr'[cons'.next].child = f
                   /\ cons'.depth = cons.depth
          /\ cons.pc = "transfer" /\ cons'.pc # "transfer"
                => /\ cons'.cur = cons.next
                   /\ cons'.depth = cons.depth
                   /\ cons'.transfers = cons.transfers + 1
                   /\ fr'[cons.next].resumes = fr[cons.next].resumes + 1
                   /\ fr'[cons.next].status =
                        IF fr[cons.next].status = "await" THEN "resumed" ELSE "run"
                   /\ \A g \in SymFrames \ {cons.next} : fr'[g] = fr[g]]_vars

\* a chain of MaxChain tasks, each awaiting the next, has run to the end: the
\* awaiting computation at the head has the value of task 1 after MaxChain
\* starts and MaxChain completions
C25_Witness ==
    /\ inst.kind = "task"
    /\ obs.op = "await_resume"
    /\ obs.tag \in {"value", "void"}
    /\ obs.h = 1
    /\ Driver \in DOMAIN fr
    /\ fr[Driver].status = "final"
    /\ cons.transfers = 2 * MaxChain
    /\ cons.depth = 0
    /\ \A f \in SymTasks : fr[f].status = "destroyed"

\* begin() or operator++ is executing, or the iterator of the consumer is
\* not equal to end()
Iterating ==
    \/ cons.pc = "pull"
    \/ cons.pc = "idle" /\ ~iterator_equals_end(fr, cons.m_coroutine)

\* the iterator of the consumer is equal to end(), or the process has been
\* terminated (an exception in a NoExcept body) or has left defined behaviour
IterationOver ==
    \/ cons.pc = "idle" /\ iterator_equals_end(fr, cons.m_coroutine)
    \/ proc # "running"

\* C26: under fair scheduling an iteration terminates.  From every state in
\* which begin() or operator++ of a generator or recursive_generator is
\* executing, or the iterator is not equal to end(), the loop reaches a
\* state in which the iterator is equal to end() (or the process has
\* terminated): so every pull returns, a pull that never returned would
\* keep the loop from end() for ever; and every pull that returns has
\* executed exactly one co_yield of a value when it delivers an element and
\* none when it delivers the end, so that the iterator is at end() after as
\* many increments as the sequence has elements.
C26_Terminates ==
    /\ Iterating ~> IterationOver
    /\ [][PullReturnStep /\ fr[cons.target].body = "user"
            => /\ obs'.tag = "value" => cons.yields = 1
               /\ obs'.tag # "value" => /\ cons.yields = 0
                                        /\ iterator_equals_end(fr', cons'.m_coroutine)]_vars

\* an iteration over a tree of three recursive_generator bodies is at end()
\* after its last element, which a grandchild of the root yielded
C26_Witness ==
    /\ inst.kind = "recursive_generator"
    /\ IterationOver
    /\ proc = "running"
    /\ obs.op = "increment"
    /\ obs.tag = "end"
    /\ obs.h # nullptr
    /\ fr[obs.h].last = ItemVal(<<2, 1, 1>>)
    /\ cons.m_coroutine = nullptr

====
